---- MODULE Spec2Model ----
(***************************************************************************)
(* Task decomposition and orchestration engine of the agent service:       *)
(*   - ProjectPlan.get_execution_stages (agents/planner/models.py)         *)
(*   - LangGraphManager workflow builder -> reviewer -> docgen             *)
(*     (agents/manager/langgraph_manager.py) with the builder and reviewer *)
(*     agents it drives                                                    *)
(*   - the POST /tasks event queue and its consumer (api/routes.py)        *)
(*   - EventQueue (api/workflow_events.py)                                 *)
(*   - PlannerAgent.create_plan with is_complex_task and                   *)
(*     parse_llm_response (agents/planner/planner_agent.py, prompt.py)     *)
(*   - _parse_review_response (agents/reviewer/software_reviewer_agent.py) *)
(*     and _parse_builder_response (agents/builder/                        *)
(*     software_builder_agent.py), also line by line                       *)
(*   - the timestamps of the events of one stream                          *)
(*   - CodeAgent._run with its TaskExecution (agents/code_agent.py,        *)
(*     agents/task_execution.py, core/task_state.py)                       *)
(*   - the stage-by-stage execution of a plan                              *)
(***************************************************************************)
EXTENDS Integers, Sequences, FiniteSets, TLC

(***************************************************************************)
(* Bounds of the model                                                     *)
(***************************************************************************)
MaxSteps == 3
MaxIssues == 1
NumProducers == 2
MaxPush == 2
MaxStageSteps == 2
MaxWords == 2
MaxRespSteps == 2
MaxTextLen == 4
MaxClock == 2
MaxEmits == 2
MaxLiveSteps == 2

VARIABLES
    \* --- ProjectPlan.get_execution_stages ---
    steps,          \* self.steps: sequence of [id, depends_on]
    staged_ids,     \* staged_ids: set of ids
    stages,         \* stages: sequence of sequences of steps
    spc,            \* position: "plan" | "loop" | "done" | "error"
    unstaged,       \* ids named by the circular-dependency error
    \* --- LangGraphManager.run inside POST /tasks ---
    state,          \* AgentState flowing through the graph
    mpc,            \* position of run_manager / the graph
    result,         \* ProjectResult returned by run (NoResult before)
    event_queue,    \* asyncio.Queue of routes.create_task
    cpc,            \* position of event_generator: "loop" | "final" | "closed"
    c_result,       \* event_generator's local result
    c_error,        \* event_generator's local error
    out,            \* what event_generator has yielded to the client
    phases,         \* observation: phases started so far, in order
    reviews,        \* observation: blocking issues of each review that ended
    \* --- EventQueue with its producers ---
    pushed,         \* observation: every item put into the queue, in put order
    sent,           \* events each producer has pushed so far
    \* --- stage-by-stage execution of a plan ---
    stage_sizes,    \* number of steps of each ExecutionStage of the plan
    current_stage,  \* stage_number of the stage being executed (0: none yet)
    step_status,    \* status of each step
    step_attempt,   \* attempt counter of each step
    step_reviews,   \* observation: verdicts of the reviews of each step, in order
    run_outcome,    \* "running" | "completed" | "failed"
    \* --- PlannerAgent.create_plan ---
    task,           \* the task text: a sequence of words
    min_complexity_words, \* PlannerConfig.min_complexity_words
    ppc,            \* position of create_plan
    response,       \* steps of the decomposition the backend answered with
    data,           \* top level of the decoded answer (NoDocument: none yet)
    plan_error,     \* the ValueError raised by parse_llm_response (NoError: none)
    plan_events,    \* events: the list create_plan returns with the plan
    \* --- the text-generation backend ---
    llm_calls,      \* observation: purpose of every generate call made so far
    \* --- one call of a parsing function ---
    call_pc,        \* "idle" | "called" | "returned"
    call_args,      \* the text the function is called with
    call_ret,       \* what it returned (NoReturn before)
    \* --- the clocks datetime.now reads ---
    clock,          \* the time of day in UTC, in hours
    utc_offset,     \* hours the local zone of the host is ahead of UTC
    \* --- CodeAgent._run with its TaskExecution ---
    task_context,   \* context of the task: NoText (None) or existing code
    can_handle_answer, \* what the identifier backend answers to CAN_HANDLE
    generated,      \* what the executor backend answers: the code it writes
    rpc,            \* position of _run
    task_state,     \* the local state of _run: a TaskState
    exc,            \* str(e) of the exception _run caught (NoText: none)
    execution,      \* the TaskExecution: state, current_node, _events
    events_put,     \* observation: every item put into _events, in put order
    gpc,            \* position of progress(): "loop" | "ended"
    yielded         \* what progress() has yielded

plannerVars == <<steps, staged_ids, stages, spc, unstaged>>
managerVars == <<state, mpc, result, phases, reviews>>
streamVars == <<event_queue, cpc, c_result, c_error, out>>
queueVars == <<pushed, sent>>
execVars == <<stage_sizes, current_stage, step_status, step_attempt, step_reviews, run_outcome>>
agentVars == <<task, min_complexity_words, ppc, response, data, plan_error, plan_events>>
callVars == <<call_pc, call_args, call_ret>>
clockVars == <<clock, utc_offset>>
codeVars == <<task_context, can_handle_answer, generated, rpc, task_state, exc, execution, events_put,
              gpc, yielded>>
vars == <<plannerVars, managerVars, streamVars, queueVars, execVars, agentVars, llm_calls,
          callVars, clockVars, codeVars>>

(***************************************************************************)
(* ProjectPlan.get_execution_stages                                        *)
(***************************************************************************)
Ids == 1..MaxSteps

\* a PlanStep: status has its default, "pending"
PlanStepRecords == [id : Ids, depends_on : SUBSET Ids, status : {"pending"}]

\* the largest id among the steps of s (0 for the empty plan)
RECURSIVE MaxId(_, _)
MaxId(s, n) ==
    IF n = 0 THEN 0
    ELSE IF s[n].id > MaxId(s, n - 1) THEN s[n].id ELSE MaxId(s, n - 1)

Range(s) == {s[i] : i \in 1..Len(s)}

StepIds(s) == {s[i].id : i \in 1..Len(s)}

\* step_map = {step.id: step for step in self.steps}: the last step wins
step_map(s, id) ==
    s[CHOOSE i \in 1..Len(s) :
        s[i].id = id /\ \A j \in (i + 1)..Len(s) : s[j].id # id]

\* remaining_deps = {step.id: set(step.depends_on) ...}: keys keep the order
\* of their first insertion, the value is the one of the last insertion
remaining_keys(s) ==
    LET idx == [i \in 1..Len(s) |-> i]
        First(i) == \A j \in 1..(i - 1) : s[j].id # s[i].id
        firsts == SelectSeq(idx, First)
    IN [k \in 1..Len(firsts) |-> s[firsts[k]].id]

\* a dependency table in which every step also waits for itself
remaining_deps_self(s, id) == step_map(s, id).depends_on \cup {id}

remaining_deps(s, id) == step_map(s, id).depends_on

\* a readiness test that is satisfied by one staged dependency
IsReady_any(s, staged, id) ==
    /\ id \notin staged
    /\ \/ remaining_deps(s, id) = {}
       \/ remaining_deps(s, id) \cap staged # {}

\* a readiness test that waits only for the dependencies the plan holds
IsReady_known(s, staged, id) ==
    id \notin staged /\ (remaining_deps(s, id) \cap StepIds(s)) \subseteq staged

\* the readiness test of one step id
IsReady(s, staged, id) ==
    id \notin staged /\ remaining_deps(s, id) \subseteq staged

\* the ready steps of a stage in the reverse of their plan order
ready_ids_reversed(s, staged) ==
    LET Ready(id) == IsReady(s, staged, id)
        all == SelectSeq(remaining_keys(s), Ready)
    IN [k \in 1..Len(all) |-> all[Len(all) + 1 - k]]

\* a stage made of the first ready step only
ready_ids_first(s, staged) ==
    LET Ready(id) == IsReady(s, staged, id)
        all == SelectSeq(remaining_keys(s), Ready)
    IN IF Len(all) = 0 THEN all ELSE <<all[1]>>

\* ready_ids: in the iteration order of remaining_deps
ready_ids(s, staged) ==
    LET Ready(id) == IsReady(s, staged, id)
    IN SelectSeq(remaining_keys(s), Ready)

\* an error that names only one of the ids it could not stage
unstaged_ids_one(s, staged) ==
    LET all == StepIds(s) \ staged
    IN IF all = {} THEN {} ELSE {CHOOSE id \in all : \A other \in all : id <= other}

\* unstaged = set(step_map.keys()) - staged_ids
unstaged_ids(s, staged) == StepIds(s) \ staged

PlannerIdle ==
    /\ steps = <<>>
    /\ staged_ids = {}
    /\ stages = <<>>
    /\ spc = "idle"
    /\ unstaged = {}

\* One more PlanStep is put in the plan: any step, valid or not. Step ids are
\* opaque to get_execution_stages (compared for equality only), so the ids
\* are numbered in the order of their first occurrence in the plan; a
\* depends_on may name any id, known or not, its own included.
PlanAddStep ==
    /\ spc = "plan"
    /\ Len(steps) < MaxSteps
    /\ \E x \in PlanStepRecords :
          /\ x.id <= MaxId(steps, Len(steps)) + 1
          /\ steps' = Append(steps, x)
    /\ UNCHANGED <<staged_ids, stages, spc, unstaged>>
    /\ UNCHANGED <<managerVars, streamVars, queueVars, execVars, agentVars, llm_calls, callVars, clockVars, codeVars>>

\* if not self.steps: return []  -- otherwise enter the while loop
StagesEnter ==
    /\ spc = "plan"
    /\ spc' = IF Len(steps) = 0 THEN "done" ELSE "loop"
    /\ UNCHANGED <<steps, staged_ids, stages, unstaged>>
    /\ UNCHANGED <<managerVars, streamVars, queueVars, execVars, agentVars, llm_calls, callVars, clockVars, codeVars>>

\* one iteration of: while len(staged_ids) < len(self.steps)
StagesIterate ==
    /\ spc = "loop"
    /\ Cardinality(staged_ids) < Len(steps)
    /\ LET ready == ready_ids(steps, staged_ids)
       IN IF Len(ready) = 0
          THEN /\ spc' = "error"
               /\ unstaged' = unstaged_ids(steps, staged_ids)
               /\ UNCHANGED <<staged_ids, stages>>
          ELSE /\ stages' = Append(stages, [k \in 1..Len(ready) |-> step_map(steps, ready[k])])
               /\ staged_ids' = staged_ids \cup Range(ready)
               /\ UNCHANGED <<spc, unstaged>>
    /\ UNCHANGED steps
    /\ UNCHANGED <<managerVars, streamVars, queueVars, execVars, agentVars, llm_calls, callVars, clockVars, codeVars>>

\* the loop condition is false: return stages
StagesReturn ==
    /\ spc = "loop"
    /\ ~(Cardinality(staged_ids) < Len(steps))
    /\ spc' = "done"
    /\ UNCHANGED <<steps, staged_ids, stages, unstaged>>
    /\ UNCHANGED <<managerVars, streamVars, queueVars, execVars, agentVars, llm_calls, callVars, clockVars, codeVars>>

(***************************************************************************)
(* Events and queue items of POST /tasks                                   *)
(***************************************************************************)
\* error_message of a successful run
NoMessage == <<>>

\* an event dict; timestamp -1: the dict has no "timestamp" key
NoData ==
    [event |-> "", step |-> "", attempt |-> 0, passed |-> FALSE, errors |-> 0,
     error_message |-> NoMessage, error |-> "", timestamp |-> -1]

Ev(name) == [NoData EXCEPT !.event = name]

EvStep(name, step) == [NoData EXCEPT !.event = name, !.step = step]

\* the end signal: event_queue.put(None)
None == Ev("None")

\* datetime.datetime.now(): the naive local time of the host
now_local == clock + utc_offset

\* datetime.now(timezone.utc)
now_utc == clock

\* event_callback: the event gets the local time as its timestamp; put_nowait
\* on an unbounded asyncio.Queue appends (QueueFull is never raised for
\* maxsize 0)
event_callback(q, evs) ==
    q \o [i \in 1..Len(evs) |-> [evs[i] EXCEPT !.timestamp = now_local]]

(***************************************************************************)
(* Backend (text generation) responses                                     *)
(***************************************************************************)
\* str(e) of an exception raised by the backend call
ErrorTexts == {"", "timeout"}

\* what _parse_builder_response makes of the code response: no code at all,
\* code that ast.parse rejects, code that ast.parse accepts
CodeKinds == {"", "bad", "ok"}

\* the first line of the VERDICT section ("NONE": the response has no
\* VERDICT marker)
Verdicts == {"PASS", "FAIL", "pass", "", "NONE"}

\* a line of a section: a list marker followed by text ("- issue: fix" or
\* "- issue"), or a line that is not such an item
LineKinds == {"item", "text"}

\* a BLOCKING or NON-BLOCKING section: whether its marker is in the response,
\* whether its stripped text is the literal "None" (in any letter case), and
\* its lines otherwise
Sections ==
    {[present |-> FALSE, none |-> FALSE, lines |-> <<>>],
     [present |-> TRUE, none |-> TRUE, lines |-> <<>>]}
    \cup {[present |-> TRUE, none |-> FALSE, lines |-> l] :
             l \in UNION {[1..n -> LineKinds] : n \in 0..MaxIssues}}

\* a review response with its three markers in the order of the output format
ReviewResponses == [blocking : Sections, nonblocking : Sections, verdict : Verdicts]

ReviewIssue(severity, category) == [severity |-> severity, category |-> category]

Repeat(x, n) == [i \in 1..n |-> x]

error_count(issues) == Len(SelectSeq(issues, LAMBDA i : i.severity = "error"))

warning_count(issues) == Len(SelectSeq(issues, LAMBDA i : i.severity = "warning"))

\* the issues of one section: one per line that starts with "-" and has text
\* after it
section_issues(section, severity, category) ==
    IF ~section.present \/ section.none THEN <<>>
    ELSE Repeat(ReviewIssue(severity, category),
                Len(SelectSeq(section.lines, LAMBDA l : l = "item")))

\* _parse_review_response: <<issues, passed>>
parse_review_issues(resp) ==
    section_issues(resp.blocking, "error", "blocking")
        \o section_issues(resp.nonblocking, "warning", "non-blocking")

\* str.upper on the verdict line
upper(line) == IF line = "pass" THEN "PASS" ELSE line

\* a parser for which a response without VERDICT section passes
parse_review_passed_lenient(resp) ==
    IF resp.verdict # "NONE" THEN upper(resp.verdict) = "PASS"
    ELSE TRUE

parse_review_passed(resp) ==
    IF resp.verdict # "NONE" THEN upper(resp.verdict) = "PASS"
    ELSE error_count(parse_review_issues(resp)) = 0

\* a syntax check that only rejects a missing artifact
check_syntax_nonempty(code) == code # ""

\* SoftwareReviewerAgent._check_syntax
check_syntax(code) == code = "ok"

\* ReviewResult.overall_passed
overall_passed(tests_passed, review_passed) == tests_passed /\ review_passed

\* a reviewer that passes on the verdict the parser read
review_passed_of_verdict(issues, parsed_passed) == parsed_passed

\* the review verdict SoftwareReviewerAgent.execute puts in its ReviewResult
\* when the syntax check passed and the backend answered
review_passed_of(issues, parsed_passed) == error_count(issues) = 0

(***************************************************************************)
(* LangGraphManager                                                        *)
(***************************************************************************)
MAX_ATTEMPTS == 3

NoResult == [returned |-> FALSE, success |-> FALSE, total_attempts |-> 0,
             error_message |-> NoMessage]

\* a state whose attempt counter starts at one
initial_state_one ==
    [code |-> "", review_passed |-> FALSE, issues |-> <<>>, attempt |-> 1,
     max_attempts |-> MAX_ATTEMPTS, previous_code |-> "", success |-> FALSE]

\* initial_state of run
initial_state ==
    [code |-> "", review_passed |-> FALSE, issues |-> <<>>, attempt |-> 0,
     max_attempts |-> MAX_ATTEMPTS, previous_code |-> "", success |-> FALSE]

ManagerIdle ==
    /\ state = initial_state
    /\ mpc = "idle"
    /\ result = NoResult
    /\ phases = <<>>
    /\ reviews = <<>>

StreamIdle ==
    /\ event_queue = <<>>
    /\ cpc = "idle"
    /\ c_result = NoResult
    /\ c_error = ""
    /\ out = <<>>

QueueIdle ==
    /\ pushed = <<>>
    /\ sent = <<>>

ExecIdle ==
    /\ stage_sizes = <<>>
    /\ current_stage = 0
    /\ step_status = <<>>
    /\ step_attempt = <<>>
    /\ step_reviews = <<>>
    /\ run_outcome = "idle"

NoReturn == [issues |-> <<>>, passed |-> FALSE]

\* None where the code has a str | None
NoText == "<None>"

\* class TaskStatus(str, Enum): the value of each member name
TaskStatus ==
    [n \in {"PENDING", "IN_ROUTING", "IN_EXECUTION", "IN_EVALUATION", "COMPLETED", "FAILED"} |->
        CASE n = "PENDING" -> "pending"
          [] n = "IN_ROUTING" -> "in_routing"
          [] n = "IN_EXECUTION" -> "in_execution"
          [] n = "IN_EVALUATION" -> "in_evaluation"
          [] n = "COMPLETED" -> "completed"
          [] n = "FAILED" -> "failed"]

\* TaskStatus.<name>: a member, or AttributeError(name)
TaskStatusAttr(name) ==
    IF name \in DOMAIN TaskStatus THEN [raised |-> FALSE, value |-> TaskStatus[name]]
    ELSE [raised |-> TRUE, value |-> name]

\* the TaskState initiate_task builds: the defaults of the dataclass
new_task_state ==
    [status |-> TaskStatus["PENDING"], generated_code |-> NoText, retry_count |-> 0,
     max_retries |-> 3, error_message |-> NoText]

\* TaskExecution.__init__
new_execution(st) == [state |-> st, current_node |-> NoText, events |-> <<>>]

CodeIdle ==
    /\ task_context = NoText
    /\ can_handle_answer = "YES"
    /\ generated = "ok"
    /\ rpc = "idle"
    /\ task_state = new_task_state
    /\ exc = NoText
    /\ execution = new_execution(new_task_state)
    /\ events_put = <<>>
    /\ gpc = "idle"
    /\ yielded = <<>>

\* a host on UTC at hour 1
ClockIdle ==
    /\ clock = 1
    /\ utc_offset = 0

CallIdle ==
    /\ call_pc = "idle"
    /\ call_args = <<>>
    /\ call_ret = NoReturn

\* no exception: the kind of error, the step it names, the id it names
NoError == [kind |-> "", step |-> "", id |-> ""]

\* no answer decoded yet
NoDocument == [type |-> "none", keys |-> {}, steps_is_list |-> FALSE]

AgentIdle ==
    /\ task = <<>>
    /\ min_complexity_words = 0
    /\ ppc = "idle"
    /\ response = <<>>
    /\ data = NoDocument
    /\ plan_error = NoError
    /\ plan_events = <<>>

\* event_generator starts run_manager as a task and enters its read loop
TaskInit ==
    /\ PlannerIdle
    /\ AgentIdle
    /\ llm_calls = <<>>
    /\ CallIdle
    /\ ClockIdle
    /\ CodeIdle
    /\ QueueIdle
    /\ ExecIdle
    /\ state = initial_state
    /\ mpc = "run"
    /\ result = NoResult
    /\ phases = <<>>
    /\ reviews = <<>>
    /\ event_queue = <<>>
    /\ cpc = "loop"
    /\ c_result = NoResult
    /\ c_error = ""
    /\ out = <<>>

\* run_manager: except Exception -> put {"_error": str(e)}; finally -> put None
Raise(q, text) ==
    /\ mpc' = "raised"
    /\ event_queue' = q \o <<[Ev("_error") EXCEPT !.error = text], None>>
    /\ UNCHANGED <<state, result, phases, reviews>>

\* run: the two planning events, then the graph is invoked at its entry point
RunStart ==
    /\ mpc = "run"
    /\ event_queue' = event_callback(event_queue,
                        <<Ev("manager_received_task"), Ev("manager_plan")>>)
    /\ mpc' = "b_enter"
    /\ UNCHANGED <<state, result, phases, reviews>>
    /\ UNCHANGED llm_calls
    /\ UNCHANGED <<plannerVars, agentVars, callVars, clockVars, codeVars, queueVars, execVars, cpc, c_result, c_error,
                   out>>

\* SoftwareBuilderAgent.execute: is_retry
builder_is_retry(issues, previous_code) == Len(issues) > 0 /\ previous_code # ""

\* StepTask.is_retry
is_retry(issues, previous_code) == Len(issues) > 0 /\ previous_code # ""

\* the StepTask _builder_node builds from the state it is entered with
step_task(st) ==
    LET attempt == st.attempt + 1
        retry == attempt > 1 /\ Len(st.issues) > 0
    IN [issues |-> IF retry THEN st.issues ELSE <<>>,
        previous_code |-> IF retry THEN st.previous_code ELSE ""]

\* _execute_reflection: the issues in the order of the feedback text, the
\* blocking ones (severity error) before the non-blocking ones (warning)
feedback(issues) ==
    SelectSeq(issues, LAMBDA i : i.severity = "error")
        \o SelectSeq(issues, LAMBDA i : i.severity = "warning")

\* what the prompts of SoftwareBuilderAgent.execute tell the backend about
\* the previous attempt: previous_code and feedback in the reflection prompt,
\* nothing in the prompts of the normal mode (feedback_section is "")
build_context(stask) ==
    IF builder_is_retry(stask.issues, stask.previous_code)
    THEN [previous_code |-> stask.previous_code, feedback |-> feedback(stask.issues)]
    ELSE [previous_code |-> "", feedback |-> <<>>]

\* the attempt the run is at: inside the builder node its local attempt
\* (state.get("attempt", 0) + 1), which the node returns as a state update;
\* in every other node the attempt of the state
current_attempt ==
    IF mpc \in {"b_plan", "b_code", "b_fix"} THEN state.attempt + 1 ELSE state.attempt

\* _builder_node up to the first backend call of SoftwareBuilderAgent.execute
BuilderEnter ==
    /\ mpc = "b_enter"
    /\ LET attempt == state.attempt + 1
           task_issues == step_task(state).issues
           task_previous == step_task(state).previous_code
           delegating == [Ev("manager_delegating") EXCEPT !.step = "builder", !.attempt = attempt]
       IN IF builder_is_retry(task_issues, task_previous)
          THEN /\ event_queue' = event_callback(event_queue,
                    <<delegating,
                      [EvStep("builder_planning_start", "planning") EXCEPT
                          !.errors = error_count(task_issues)],
                      EvStep("builder_planning_complete", "planning"),
                      EvStep("builder_coding_start", "coding")>>)
               /\ mpc' = "b_fix"
          ELSE /\ event_queue' = event_callback(event_queue,
                    <<delegating, EvStep("builder_planning_start", "planning")>>)
               /\ mpc' = "b_plan"
    /\ phases' = Append(phases, "BUILD")
    /\ UNCHANGED <<state, result, reviews>>
    /\ llm_calls' = Append(llm_calls, IF mpc' = "b_fix" THEN "fix" ELSE "plan")
    /\ UNCHANGED <<plannerVars, agentVars, callVars, clockVars, codeVars, queueVars, execVars, cpc, c_result, c_error,
                   out>>

\* a builder that announces coding before it completes planning
BuilderPlanReturn_early ==
    /\ mpc = "b_plan"
    /\ \/ /\ event_queue' = event_callback(event_queue,
                  <<EvStep("builder_coding_start", "coding"),
                    EvStep("builder_planning_complete", "planning")>>)
          /\ mpc' = "b_code"
          /\ UNCHANGED <<state, result, phases, reviews>>
       \/ \E text \in ErrorTexts : Raise(event_queue, text)
    /\ llm_calls' = IF mpc' = "b_code" THEN Append(llm_calls, "code") ELSE llm_calls
    /\ UNCHANGED <<plannerVars, agentVars, callVars, clockVars, codeVars, queueVars, execVars, cpc, c_result, c_error,
                   out>>

\* _execute_normal: the planning call returns, or raises
BuilderPlanReturn ==
    /\ mpc = "b_plan"
    /\ \/ /\ event_queue' = event_callback(event_queue,
                  <<EvStep("builder_planning_complete", "planning"),
                    EvStep("builder_coding_start", "coding")>>)
          /\ mpc' = "b_code"
          /\ UNCHANGED <<state, result, phases, reviews>>
       \/ \E text \in ErrorTexts : Raise(event_queue, text)
    /\ llm_calls' = IF mpc' = "b_code" THEN Append(llm_calls, "code") ELSE llm_calls
    /\ UNCHANGED <<plannerVars, agentVars, callVars, clockVars, codeVars, queueVars, execVars, cpc, c_result, c_error,
                   out>>

\* the code-generation call (_execute_normal) or the fix call
\* (_execute_reflection) returns, or raises; _builder_node returns its updates
BuilderCodeReturn ==
    /\ mpc \in {"b_code", "b_fix"}
    /\ \/ \E code \in CodeKinds :
             /\ event_queue' = event_callback(event_queue,
                     <<EvStep("builder_coding_complete", "coding")>>)
             /\ state' = [state EXCEPT !.code = code,
                                       !.attempt = state.attempt + 1,
                                       !.previous_code = code]
             /\ mpc' = "r_enter"
             /\ UNCHANGED <<result, phases, reviews>>
       \/ \E text \in ErrorTexts : Raise(event_queue, text)
    /\ UNCHANGED llm_calls
    /\ UNCHANGED <<plannerVars, agentVars, callVars, clockVars, codeVars, queueVars, execVars, cpc, c_result, c_error,
                   out>>

\* a routing that allows one attempt too many
should_retry_or_continue_le(review_passed, attempt, max_attempts) ==
    IF review_passed THEN "continue"
    ELSE IF attempt <= max_attempts THEN "retry"
    ELSE "fail"

\* a routing that documents the last attempt whatever its review found
should_retry_or_continue_docs(review_passed, attempt, max_attempts) ==
    IF review_passed \/ attempt >= max_attempts THEN "continue"
    ELSE "retry"

\* _should_retry_or_continue on the state a review left
should_retry_or_continue(review_passed, attempt, max_attempts) ==
    IF review_passed THEN "continue"
    ELSE IF attempt < max_attempts THEN "retry"
    ELSE "fail"

\* the node the graph of _build_graph goes to from the reviewer
AfterReviewer(route) ==
    CASE route = "retry" -> "b_enter"
      [] route = "continue" -> "d_enter"
      [] route = "fail" -> "END"

\* a routing that announces a reflection after every failed review
RouteEvents_every(route, st) ==
    IF route \in {"retry", "fail"}
    THEN <<[Ev("reflection_start") EXCEPT !.attempt = st.attempt,
                                           !.errors = error_count(st.issues)]>>
    ELSE <<>>

\* the reflection_start event of the "retry" route
RouteEvents(route, st) ==
    IF route = "retry"
    THEN <<[Ev("reflection_start") EXCEPT !.attempt = st.attempt,
                                           !.errors = error_count(st.issues)]>>
    ELSE <<>>

\* the reviewer node returned review_passed and issues: merge them into the
\* state and follow the conditional edge
ReviewerDone(q, passed, issues) ==
    LET st == [state EXCEPT !.review_passed = passed, !.issues = issues]
        route == should_retry_or_continue(st.review_passed, st.attempt, st.max_attempts)
    IN /\ state' = st
       /\ event_queue' = event_callback(q, RouteEvents(route, st))
       /\ mpc' = AfterReviewer(route)
       /\ reviews' = Append(reviews, error_count(issues))

\* _reviewer_node up to the backend call of SoftwareReviewerAgent.execute; a
\* syntax failure returns without a backend call
ReviewerEnter ==
    /\ mpc = "r_enter"
    /\ LET q == event_callback(event_queue,
                  <<[Ev("manager_delegating") EXCEPT !.step = "reviewer"],
                    EvStep("reviewer_planning_start", "planning"),
                    EvStep("reviewer_planning_complete", "planning"),
                    EvStep("reviewer_step_start", "syntax")>>)
       IN IF ~check_syntax(state.code)
          THEN ReviewerDone(
                  event_callback(q,
                     <<EvStep("reviewer_step_complete", "syntax"),
                       [Ev("reviewer_complete") EXCEPT !.errors = 1]>>),
                  overall_passed(FALSE, FALSE),
                  <<ReviewIssue("error", "syntax")>>)
          ELSE /\ event_queue' = event_callback(q,
                     <<[EvStep("reviewer_step_complete", "syntax") EXCEPT !.passed = TRUE],
                       EvStep("reviewer_step_start", "review")>>)
               /\ mpc' = "r_call"
               /\ UNCHANGED <<state, reviews>>
    /\ phases' = Append(phases, "REVIEW")
    /\ UNCHANGED result
    /\ llm_calls' = IF mpc' = "r_call" THEN Append(llm_calls, "review") ELSE llm_calls
    /\ UNCHANGED <<plannerVars, agentVars, callVars, clockVars, codeVars, queueVars, execVars, cpc, c_result, c_error,
                   out>>

\* the review call returns, or raises
ReviewerReturn ==
    /\ mpc = "r_call"
    /\ \/ \E resp \in ReviewResponses :
            LET issues == parse_review_issues(resp)
                passed == review_passed_of(issues, parse_review_passed(resp))
            IN /\ ReviewerDone(
                     event_callback(event_queue,
                        <<[EvStep("reviewer_step_complete", "review") EXCEPT
                              !.passed = parse_review_passed(resp),
                              !.errors = error_count(issues)],
                          [Ev("reviewer_complete") EXCEPT
                              !.passed = passed, !.errors = error_count(issues)]>>),
                     overall_passed(TRUE, passed),
                     issues)
               /\ UNCHANGED <<result, phases>>
       \/ \E text \in ErrorTexts : Raise(event_queue, text)
    /\ UNCHANGED llm_calls
    /\ UNCHANGED <<plannerVars, agentVars, callVars, clockVars, codeVars, queueVars, execVars, cpc, c_result, c_error,
                   out>>

\* _docgen_node up to the backend call of DocumentationGeneratorAgent.execute
DocgenEnter ==
    /\ mpc = "d_enter"
    /\ event_queue' = event_callback(event_queue,
            <<[Ev("manager_delegating") EXCEPT !.step = "docgen"], Ev("docgen_start")>>)
    /\ mpc' = "d_call"
    /\ phases' = Append(phases, "FINALIZE")
    /\ UNCHANGED <<state, result, reviews>>
    /\ llm_calls' = Append(llm_calls, "docs")
    /\ UNCHANGED <<plannerVars, agentVars, callVars, clockVars, codeVars, queueVars, execVars, cpc, c_result, c_error,
                   out>>

\* the documentation call returns, or raises; docgen always goes to END
DocgenReturn ==
    /\ mpc = "d_call"
    /\ \/ /\ event_queue' = event_callback(event_queue, <<Ev("docgen_complete")>>)
          /\ state' = [state EXCEPT !.success = TRUE]
          /\ mpc' = "END"
          /\ UNCHANGED <<result, phases, reviews>>
       \/ \E text \in ErrorTexts : Raise(event_queue, text)
    /\ UNCHANGED llm_calls
    /\ UNCHANGED <<plannerVars, agentVars, callVars, clockVars, codeVars, queueVars, execVars, cpc, c_result, c_error,
                   out>>

\* a message with its two numbers in each other's place
review_failed_message_swapped(errors, attempt) == <<"Review failed", attempt, errors>>

\* error_message of run: f"Review failed with {error_count} blocking issue(s)
\* after {attempt} attempt(s)"
review_failed_message(errors, attempt) == <<"Review failed", errors, attempt>>

\* run after ainvoke returned: manager_complete, the ProjectResult; then
\* run_manager puts {"_result": result} and None
RunReturn ==
    /\ mpc = "END"
    /\ LET success == state.success
           error_message == IF ~success
                            THEN review_failed_message(error_count(state.issues), state.attempt)
                            ELSE NoMessage
           res == [returned |-> TRUE, success |-> success,
                   total_attempts |-> state.attempt, error_message |-> error_message]
       IN /\ result' = res
          /\ event_queue' = event_callback(event_queue,
                <<[Ev("manager_complete") EXCEPT !.passed = success,
                                                 !.attempt = state.attempt,
                                                 !.error_message = error_message]>>)
                \o <<[Ev("_result") EXCEPT !.passed = success,
                                           !.attempt = state.attempt,
                                           !.error_message = error_message],
                     None>>
    /\ mpc' = "returned"
    /\ UNCHANGED <<state, phases, reviews>>
    /\ UNCHANGED llm_calls
    /\ UNCHANGED <<plannerVars, agentVars, callVars, clockVars, codeVars, queueVars, execVars, cpc, c_result, c_error,
                   out>>

(***************************************************************************)
(* event_generator of POST /tasks                                          *)
(***************************************************************************)
\* one iteration of the read loop: event_data = await event_queue.get()
GeneratorGet ==
    /\ cpc = "loop"
    /\ Len(event_queue) > 0
    /\ LET event_data == Head(event_queue)
       IN /\ event_queue' = Tail(event_queue)
          /\ IF event_data = None
             THEN /\ cpc' = "final"
                  /\ UNCHANGED <<c_result, c_error, out>>
             ELSE IF event_data.event = "_result"
             THEN /\ c_result' = [returned |-> TRUE, success |-> event_data.passed,
                                  total_attempts |-> event_data.attempt,
                                  error_message |-> event_data.error_message]
                  /\ UNCHANGED <<cpc, c_error, out>>
             ELSE IF event_data.event = "_error"
             THEN /\ c_error' = event_data.error
                  /\ UNCHANGED <<cpc, c_result, out>>
             ELSE /\ out' = Append(out, event_data)
                  /\ UNCHANGED <<cpc, c_result, c_error>>
    /\ UNCHANGED <<plannerVars, managerVars, queueVars, execVars, agentVars, llm_calls, callVars, clockVars, codeVars>>

\* after the loop: if result -> result event; elif error -> error event
GeneratorFinal ==
    /\ cpc = "final"
    /\ IF c_result.returned
       THEN out' = Append(out, [Ev("result") EXCEPT
                                    !.passed = c_result.success,
                                    !.error_message = c_result.error_message,
                                    !.timestamp = now_utc])
       ELSE IF c_error # ""
       THEN out' = Append(out, [Ev("error") EXCEPT !.error = c_error])
       ELSE out' = out
    /\ cpc' = "closed"
    /\ UNCHANGED <<event_queue, c_result, c_error>>
    /\ UNCHANGED <<plannerVars, managerVars, queueVars, execVars, agentVars, llm_calls, callVars, clockVars, codeVars>>

Next ==
    \/ RunStart
    \/ BuilderEnter
    \/ BuilderPlanReturn
    \/ BuilderCodeReturn
    \/ ReviewerEnter
    \/ ReviewerReturn
    \/ DocgenEnter
    \/ DocgenReturn
    \/ RunReturn
    \/ GeneratorGet
    \/ GeneratorFinal

Spec == TaskInit /\ [][Next]_vars

\* the event loop runs every task that is ready: run_manager is a task of its
\* own (asyncio.create_task) and every await of the run and of the read loop
\* resumes once the awaited call has returned or raised
SpecLive == TaskInit /\ [][Next]_vars /\ WF_vars(Next)

(***************************************************************************)
(* CodeAgent._run and the TaskExecution it reports to                      *)
(***************************************************************************)
\* a WorkflowEvent: its type and the keys of its data the run depends on
WorkflowEvent(event_type) ==
    [event_type |-> event_type, node |-> NoText, attempt |-> 0, status |-> NoText,
     generated_code |-> NoText, error |-> NoText]

\* the end signal of TaskExecution: _events.put_nowait(None)
EndSignal == WorkflowEvent("None")

node_start_event(node_name) == [WorkflowEvent("node_start") EXCEPT !.node = node_name]

error_event(node_name, error) ==
    [WorkflowEvent("error") EXCEPT !.node = node_name, !.error = error]

result_event(status, generated_code, error) ==
    [WorkflowEvent("result") EXCEPT !.status = status, !.generated_code = generated_code,
                                    !.error = error]

\* TaskExecution.start_node
start_node(ex, node_name) ==
    [ex EXCEPT !.current_node = node_name,
               !.events = Append(ex.events, node_start_event(node_name))]

\* TaskExecution.error
execution_error(ex, node_name, error_msg) ==
    [ex EXCEPT !.events = Append(ex.events, error_event(node_name, error_msg))]

\* a completion that signals the end twice
complete_twice(ex, final_state) ==
    [ex EXCEPT !.state = final_state,
               !.events = ex.events
                   \o <<result_event(final_state.status, final_state.generated_code,
                                     final_state.error_message),
                        EndSignal, EndSignal>>]

\* TaskExecution.complete: the result event, then the end signal
complete(ex, final_state) ==
    [ex EXCEPT !.state = final_state,
               !.events = ex.events
                   \o <<result_event(final_state.status, final_state.generated_code,
                                     final_state.error_message),
                        EndSignal>>]

\* the TaskExecution after a call of one of its methods, and what the call
\* put into _events
Reports(ex) ==
    /\ execution' = ex
    /\ events_put' = events_put
          \o SubSeq(ex.events, Len(execution.events) + 1, Len(ex.events))

\* the task descriptions differ in what the two backends would answer
Contexts == {NoText, "code"}

\* initiate_task built the TaskState and the TaskExecution, created the task
\* of _run and returned; the caller iterates progress()
CodeInit ==
    /\ PlannerIdle
    /\ ManagerIdle
    /\ StreamIdle
    /\ QueueIdle
    /\ ExecIdle
    /\ AgentIdle
    /\ llm_calls = <<>>
    /\ CallIdle
    /\ ClockIdle
    /\ task_context \in Contexts
    /\ can_handle_answer \in {"YES", "NO"}
    /\ generated \in CodeKinds
    /\ rpc = "start"
    /\ task_state = new_task_state
    /\ exc = NoText
    /\ execution = new_execution(new_task_state)
    /\ events_put = <<>>
    /\ gpc = "loop"
    /\ yielded = <<>>

\* _run: execution.start_node("identify", ...)
RunStartIdentify ==
    /\ rpc = "start"
    /\ Reports(start_node(execution, "identify"))
    /\ rpc' = "identify"
    /\ UNCHANGED <<task_context, can_handle_answer, generated, task_state, exc, gpc, yielded>>
    /\ UNCHANGED <<plannerVars, managerVars, streamVars, queueVars, execVars, agentVars, llm_calls,
                   callVars, clockVars>>

\* _run: state = state.with_updates(status=TaskStatus.IDENTIFYING); the
\* lookup of a name the enumeration does not have raises AttributeError,
\* which the except clause of _run catches
RunSetIdentifying ==
    /\ rpc = "identify"
    /\ LET status == TaskStatusAttr("IDENTIFYING")
       IN IF status.raised
          THEN /\ exc' = status.value
               /\ rpc' = "except"
               /\ UNCHANGED task_state
          ELSE /\ task_state' = [task_state EXCEPT !.status = status.value]
               /\ rpc' = "can_handle"
               /\ UNCHANGED exc
    /\ UNCHANGED <<task_context, can_handle_answer, generated, execution, events_put, gpc, yielded>>
    /\ UNCHANGED <<plannerVars, managerVars, streamVars, queueVars, execVars, agentVars, llm_calls,
                   callVars, clockVars>>

\* _run, except Exception as e: execution.error("workflow", str(e))
RunExceptError ==
    /\ rpc = "except"
    /\ Reports(execution_error(execution, "workflow", exc))
    /\ rpc' = "failing"
    /\ UNCHANGED <<task_context, can_handle_answer, generated, task_state, exc, gpc, yielded>>
    /\ UNCHANGED <<plannerVars, managerVars, streamVars, queueVars, execVars, agentVars, llm_calls,
                   callVars, clockVars>>

\* _run, except clause: the state becomes FAILED with str(e) as its
\* error_message; execution.complete(state, ...)
RunExceptComplete ==
    /\ rpc = "failing"
    /\ LET final_state == [task_state EXCEPT !.status = TaskStatusAttr("FAILED").value,
                                              !.error_message = exc]
       IN /\ task_state' = final_state
          /\ Reports(complete(execution, final_state))
    /\ rpc' = "done"
    /\ UNCHANGED <<task_context, can_handle_answer, generated, exc, gpc, yielded>>
    /\ UNCHANGED <<plannerVars, managerVars, streamVars, queueVars, execVars, agentVars, llm_calls,
                   callVars, clockVars>>

\* progress(): event = await self._events.get(); break on None, else yield.
\* _run reaches no await before its end, so the reader of progress() is
\* resumed only when _run is over
ProgressNext ==
    /\ gpc = "loop"
    /\ rpc = "done"
    /\ Len(execution.events) > 0
    /\ LET event == Head(execution.events)
       IN /\ execution' = [execution EXCEPT !.events = Tail(execution.events)]
          /\ IF event = EndSignal
             THEN gpc' = "ended" /\ UNCHANGED yielded
             ELSE yielded' = Append(yielded, event) /\ UNCHANGED gpc
    /\ UNCHANGED <<task_context, can_handle_answer, generated, rpc, task_state, exc, events_put>>
    /\ UNCHANGED <<plannerVars, managerVars, streamVars, queueVars, execVars, agentVars, llm_calls,
                   callVars, clockVars>>

CodeNext ==
    \/ RunStartIdentify
    \/ RunSetIdentifying
    \/ RunExceptError
    \/ RunExceptComplete
    \/ ProgressNext

SpecCode == CodeInit /\ [][CodeNext]_vars

(***************************************************************************)
(* The timestamps of one stream: the run seen from create_task, on a host  *)
(* in any time zone                                                        *)
(***************************************************************************)
\* zones one hour behind UTC, on UTC, one hour ahead of UTC
UtcOffsets == {-1, 0, 1}

StampInit ==
    /\ PlannerIdle
    /\ AgentIdle
    /\ llm_calls = <<>>
    /\ CallIdle
    /\ QueueIdle
    /\ ExecIdle
    /\ state = initial_state
    /\ mpc = "run"
    /\ result = NoResult
    /\ phases = <<>>
    /\ reviews = <<>>
    /\ event_queue = <<>>
    /\ cpc = "loop"
    /\ c_result = NoResult
    /\ c_error = ""
    /\ out = <<>>
    /\ clock = 1
    /\ utc_offset \in UtcOffsets
    /\ CodeIdle

\* time passes
ClockTick ==
    /\ clock < MaxClock
    /\ clock' = clock + 1
    /\ UNCHANGED utc_offset
    /\ UNCHANGED <<plannerVars, managerVars, streamVars, queueVars, execVars, agentVars, llm_calls,
                   callVars, codeVars>>

\* manager.run reports progress: one call of event_callback
ManagerEmits ==
    /\ mpc = "run"
    /\ Len(event_queue) + Len(out) < MaxEmits
    /\ event_queue' = event_callback(event_queue, <<Ev("manager_plan")>>)
    /\ UNCHANGED <<state, mpc, result, phases, reviews>>
    /\ UNCHANGED llm_calls
    /\ UNCHANGED <<plannerVars, agentVars, callVars, clockVars, codeVars, queueVars, execVars, cpc, c_result, c_error,
                   out>>

\* run_manager: manager.run returns and {"_result": result} is put, or it
\* raises and {"_error": str(e)} is put; then None is put
RunManagerEnds ==
    /\ mpc = "run"
    /\ \/ \E success \in BOOLEAN :
             LET res == [returned |-> TRUE, success |-> success, total_attempts |-> 1,
                         error_message |-> NoMessage]
             IN /\ result' = res
                /\ mpc' = "returned"
                /\ event_queue' = event_queue \o <<[Ev("_result") EXCEPT !.passed = success,
                                                                         !.attempt = 1],
                                                    None>>
                /\ UNCHANGED <<state, phases, reviews>>
       \/ \E text \in ErrorTexts : Raise(event_queue, text)
    /\ UNCHANGED llm_calls
    /\ UNCHANGED <<plannerVars, agentVars, callVars, clockVars, codeVars, queueVars, execVars, cpc, c_result, c_error,
                   out>>

StampNext ==
    \/ ClockTick
    \/ ManagerEmits
    \/ RunManagerEnds
    \/ GeneratorGet
    \/ GeneratorFinal

SpecStamp == StampInit /\ [][StampNext]_vars

\* the snake-game decomposition: config (1), snake (2) and food (3) on
\* config, collision (4) on snake and food, game_loop (5) on collision
Diamond ==
    <<[id |-> 1, depends_on |-> {}, status |-> "pending"],
      [id |-> 2, depends_on |-> {1}, status |-> "pending"],
      [id |-> 3, depends_on |-> {1}, status |-> "pending"],
      [id |-> 4, depends_on |-> {2, 3}, status |-> "pending"],
      [id |-> 5, depends_on |-> {4}, status |-> "pending"]>>

\* the same steps listed in any order
DiamondPlans ==
    LET n == Len(Diamond)
        perms == {f \in [1..n -> 1..n] : \A i, j \in 1..n : i # j => f[i] # f[j]}
    IN {[i \in 1..n |-> Diamond[f[i]]] : f \in perms}

StagesNext == PlanAddStep \/ StagesEnter \/ StagesIterate \/ StagesReturn

\* a ProjectPlan is constructed with an empty list of steps, to which steps
\* are then added, or with the steps of the snake-game decomposition
StagesInit ==
    /\ ManagerIdle
    /\ AgentIdle
    /\ llm_calls = <<>>
    /\ CallIdle
    /\ ClockIdle
    /\ CodeIdle
    /\ StreamIdle
    /\ QueueIdle
    /\ ExecIdle
    /\ steps \in {<<>>} \cup DiamondPlans
    /\ staged_ids = {}
    /\ stages = <<>>
    /\ spc = "plan"
    /\ unstaged = {}

SpecStages == StagesInit /\ [][StagesNext]_vars

\* the plans of the termination check: built step by step as above, up to
\* MaxLiveSteps steps
PlanAddStepLive ==
    /\ Len(steps) < MaxLiveSteps
    /\ PlanAddStep

StagesLiveNext == PlanAddStepLive \/ StagesEnter \/ StagesIterate \/ StagesReturn

\* get_execution_stages is synchronous code: once called on a plan it runs
\* its loop until it returns or raises
SpecStagesLive ==
    StagesInit /\ [][StagesLiveNext]_vars
        /\ WF_vars(StagesEnter \/ StagesIterate \/ StagesReturn)

(***************************************************************************)
(* PlannerAgent.create_plan (agents/planner/planner_agent.py) with         *)
(* is_complex_task and parse_llm_response (agents/planner/prompt.py)       *)
(***************************************************************************)
\* the words a task is written with
Words == {"Sort", "Game"}

Tasks == UNION {[1..n -> Words] : n \in 0..MaxWords}

\* str.lower on a word
lower(w) ==
    CASE w = "Sort" -> "sort" [] w = "Game" -> "game" [] w = "None" -> "none" [] OTHER -> w

\* the keywords of COMPLEXITY_KEYWORDS the words can match
COMPLEXITY_KEYWORDS == {"game"}

\* keyword in task_lower: a substring test on the lowered text
keyword_in(keyword, tsk) == \E i \in 1..Len(tsk) : lower(tsk[i]) = keyword

\* a classification that looks at the word count only
is_complex_task_count_only(tsk, min_words) == Len(tsk) >= min_words

\* a classification that sends every task to the backend
is_complex_task_always(tsk, min_words) == TRUE

\* is_complex_task(task, config)
is_complex_task(tsk, min_words) ==
    \/ Len(tsk) >= min_words
    \/ \E keyword \in COMPLEXITY_KEYWORDS : keyword_in(keyword, tsk)

\* PlannerConfig.max_steps, which format_planner_prompt writes in the prompt
\* of the decomposition call: a configuration that allows one step less than
\* the backend may answer with
max_steps == MaxRespSteps - 1

\* step ids of a decomposition
StepName(i) == "s" \o ToString(i)

RespIds == {StepName(i) : i \in 1..MaxRespSteps}

IdIndex(id) == CHOOSE i \in 1..MaxRespSteps : StepName(i) = id

\* the ids a depends_on can name: the step ids and one id that no step has
DepIds == RespIds \cup {StepName(MaxRespSteps + 1)}

\* the keys _parse_step reads from a step object
StepKeys == {"id", "task", "depends_on"}

\* one element of data["steps"]: an object with an id, a task and a depends_on
\* list
RespStepRecords ==
    [keys : {StepKeys}, id : RespIds, task : {<<"step">>}, depends_on : SUBSET DepIds]

\* step objects that lack a key (the value shown under an absent key is a
\* placeholder), or whose id or task is the empty string; they name no
\* dependency
OddStepRecords ==
    {[keys |-> StepKeys \ {"id"}, id |-> "", task |-> <<"step">>, depends_on |-> {}]}
    \cup {[keys |-> StepKeys \ {"task"}, id |-> i, task |-> <<>>, depends_on |-> {}] :
             i \in RespIds}
    \cup {[keys |-> StepKeys \ {"depends_on"}, id |-> i, task |-> <<"step">>,
            depends_on |-> {}] : i \in RespIds}
    \cup {[keys |-> StepKeys, id |-> "", task |-> <<"step">>, depends_on |-> {}]}
    \cup {[keys |-> StepKeys, id |-> i, task |-> <<>>, depends_on |-> {}] : i \in RespIds}

\* ids are opaque to the parser (compared for equality only): a response
\* numbers its non-empty ids in the order of their first occurrence
Canonical(r) ==
    \A i \in 1..Len(r) :
        r[i].id \in RespIds =>
            \/ \E j \in 1..(i - 1) : r[j].id = r[i].id
            \/ IdIndex(r[i].id) =
                  Cardinality({r[j].id : j \in 1..(i - 1)} \cap RespIds) + 1

\* the step lists the backend can answer with, the empty one included
Responses ==
    {r \in UNION {[1..n -> RespStepRecords \cup OddStepRecords] : n \in 0..MaxRespSteps} :
        Canonical(r)}

\* the top level of an answer: text that is no JSON ("invalid"), a JSON value
\* that is no object ("list"), or an object ("dict") with its keys and
\* whether data["steps"] is a list
TopLevels ==
    {[type |-> ty, keys |-> {}, steps_is_list |-> FALSE] : ty \in {"invalid", "list"}}
    \cup {d \in [type : {"dict"}, keys : SUBSET {"reasoning", "steps"},
                  steps_is_list : BOOLEAN] :
             d.steps_is_list => "steps" \in d.keys}

\* the checks of parse_llm_response on the top level, in the order of the code
top_level_errors(d) ==
    IF d.type = "invalid" THEN {[NoError EXCEPT !.kind = "invalid_json"]}
    ELSE IF d.type # "dict" THEN {[NoError EXCEPT !.kind = "not_object"]}
    ELSE IF "reasoning" \notin d.keys THEN {[NoError EXCEPT !.kind = "missing_reasoning"]}
    ELSE IF "steps" \notin d.keys THEN {[NoError EXCEPT !.kind = "missing_steps"]}
    ELSE IF ~d.steps_is_list THEN {[NoError EXCEPT !.kind = "steps_not_list"]}
    ELSE {}

\* a parser that does not look for the required fields of a step
missing_field_index_none(r) == 0

\* _parse_step: the index of the first step object without "id" or without
\* "task" (0: none)
missing_field_index(r) ==
    LET bad == {i \in 1..Len(r) : "id" \notin r[i].keys \/ "task" \notin r[i].keys}
    IN IF bad = {} THEN 0 ELSE CHOOSE i \in bad : \A k \in bad : i <= k

\* a parser that does not look for duplicate ids
duplicate_index_none(r) == 0

\* _parse_step in the loop of parse_llm_response: the index of the first step
\* whose id is in existing_ids (0: none)
duplicate_index(r) ==
    LET dups == {i \in 1..Len(r) : \E j \in 1..(i - 1) : r[j].id = r[i].id}
    IN IF dups = {} THEN 0 ELSE CHOOSE i \in dups : \A k \in dups : i <= k

\* the depends_on entries of step i that are not in step_ids
unknown_deps(r, i) == r[i].depends_on \ StepIds(r)

\* a parser that does not validate the dependencies
unknown_dep_index_none(r) == 0

\* the validation loop of parse_llm_response: the index of the first step
\* that depends on an unknown id (0: none)
unknown_dep_index(r) ==
    LET bad == {i \in 1..Len(r) : unknown_deps(r, i) # {}}
    IN IF bad = {} THEN 0 ELSE CHOOSE i \in bad : \A k \in bad : i <= k

\* the ValueErrors parse_llm_response can raise on the response r
\* (depends_on is a list in the code and its first unknown entry is named)
parse_errors(r) ==
    IF Len(r) = 0 THEN {[NoError EXCEPT !.kind = "empty_steps"]}
    ELSE IF /\ missing_field_index(r) # 0
            /\ duplicate_index(r) \in {0} \cup (missing_field_index(r)..Len(r))
    THEN {[NoError EXCEPT
              !.kind = IF "id" \notin r[missing_field_index(r)].keys
                       THEN "missing_id" ELSE "missing_task",
              !.step = ToString(missing_field_index(r) - 1)]}
    ELSE IF duplicate_index(r) # 0
    THEN {[NoError EXCEPT !.kind = "duplicate_id", !.id = r[duplicate_index(r)].id]}
    ELSE IF unknown_dep_index(r) # 0
    THEN {[kind |-> "unknown_dependency", step |-> r[unknown_dep_index(r)].id, id |-> d] :
             d \in unknown_deps(r, unknown_dep_index(r))}
    ELSE {}

\* PlanStep(id=..., task=..., depends_on=...) of each parsed step
parsed_steps(r) ==
    [i \in 1..Len(r) |->
        [id |-> r[i].id, task |-> r[i].task,
         depends_on |-> IF "depends_on" \in r[i].keys THEN r[i].depends_on ELSE {},
         status |-> "pending"]]

NoEvent ==
    [event |-> "", is_complex |-> FALSE, word_count |-> 0, step_id |-> "",
     total_steps |-> 0, parallel_stages |-> 0]

\* plan_step_identified events in the reverse of the plan order
step_events_reversed(s) ==
    [i \in 1..Len(s) |->
        [NoEvent EXCEPT !.event = "plan_step_identified", !.step_id = s[Len(s) + 1 - i].id]]

\* the plan_step_identified events of a plan
step_events(s) ==
    [i \in 1..Len(s) |-> [NoEvent EXCEPT !.event = "plan_step_identified", !.step_id = s[i].id]]

CreatePlanInit ==
    /\ ManagerIdle
    /\ StreamIdle
    /\ QueueIdle
    /\ ExecIdle
    /\ PlannerIdle
    /\ task \in Tasks
    /\ min_complexity_words \in 0..(MaxWords + 1)
    /\ ppc = "start"
    /\ response = <<>>
    /\ data = NoDocument
    /\ plan_error = NoError
    /\ plan_events = <<>>
    /\ llm_calls = <<>>
    /\ CallIdle
    /\ ClockIdle
    /\ CodeIdle

\* create_plan up to the await of _create_complex_plan, or, for a simple task,
\* up to the call of get_execution_stages
CreatePlanStart ==
    /\ ppc = "start"
    /\ LET is_complex == is_complex_task(task, min_complexity_words)
           analysis == <<[NoEvent EXCEPT !.event = "plan_start"],
                         [NoEvent EXCEPT !.event = "plan_analysis",
                                         !.is_complex = is_complex,
                                         !.word_count = Len(task)]>>
           simple == <<[id |-> "main", task |-> task, depends_on |-> {},
                        status |-> "pending"]>>
       IN IF is_complex
          THEN /\ llm_calls' = Append(llm_calls, "decompose")
               /\ ppc' = "call"
               /\ plan_events' = analysis
               /\ UNCHANGED <<steps, spc>>
          ELSE /\ steps' = simple
               /\ plan_events' = analysis \o step_events(simple)
               /\ spc' = "plan"
               /\ ppc' = "stages"
               /\ UNCHANGED llm_calls
    /\ UNCHANGED <<staged_ids, stages, unstaged, task, min_complexity_words, response, data,
                   plan_error>>
    /\ UNCHANGED <<managerVars, streamVars, queueVars, execVars, callVars, clockVars, codeVars>>

\* the decomposition call returns and parse_llm_response runs on the answer,
\* or the call raises
CreatePlanParse ==
    /\ ppc = "call"
    /\ \/ \E d \in TopLevels :
             \E r \in IF top_level_errors(d) = {} THEN Responses ELSE {<<>>} :
                /\ data' = d
                /\ response' = r
                /\ IF top_level_errors(d) \cup parse_errors(r) # {}
                   THEN /\ plan_error' \in IF top_level_errors(d) # {}
                                           THEN top_level_errors(d) ELSE parse_errors(r)
                        /\ ppc' = "raised"
                        /\ UNCHANGED <<steps, spc, plan_events>>
                   ELSE /\ steps' = parsed_steps(r)
                        /\ plan_events' = plan_events \o step_events(parsed_steps(r))
                        /\ spc' = "plan"
                        /\ ppc' = "stages"
                        /\ UNCHANGED plan_error
       \/ /\ plan_error' = [NoError EXCEPT !.kind = "backend"]
          /\ ppc' = "raised"
          /\ UNCHANGED <<steps, spc, plan_events, response, data>>
    /\ UNCHANGED <<staged_ids, stages, unstaged, task, min_complexity_words, llm_calls>>
    /\ UNCHANGED <<managerVars, streamVars, queueVars, execVars, callVars, clockVars, codeVars>>

\* get_execution_stages returned, or raised: plan_complete and the return of
\* create_plan, or the exception leaves create_plan
CreatePlanFinish ==
    /\ ppc = "stages"
    /\ spc \in {"done", "error"}
    /\ IF spc = "done"
       THEN /\ plan_events' = Append(plan_events,
                   [NoEvent EXCEPT !.event = "plan_complete",
                                   !.total_steps = Len(steps),
                                   !.parallel_stages = Len(stages)])
            /\ ppc' = "done"
            /\ UNCHANGED plan_error
       ELSE /\ plan_error' = [NoError EXCEPT !.kind = "circular_dependency"]
            /\ ppc' = "raised"
            /\ UNCHANGED plan_events
    /\ UNCHANGED <<plannerVars, task, min_complexity_words, response, data, llm_calls>>
    /\ UNCHANGED <<managerVars, streamVars, queueVars, execVars, callVars, clockVars, codeVars>>

CreatePlanNext ==
    \/ CreatePlanStart
    \/ CreatePlanParse
    \/ StagesEnter
    \/ StagesIterate
    \/ StagesReturn
    \/ CreatePlanFinish

SpecPlan == CreatePlanInit /\ [][CreatePlanNext]_vars

(***************************************************************************)
(* One call of _parse_review_response                                      *)
(***************************************************************************)
ReviewParseInit ==
    /\ PlannerIdle
    /\ ManagerIdle
    /\ StreamIdle
    /\ QueueIdle
    /\ ExecIdle
    /\ AgentIdle
    /\ llm_calls = <<>>
    /\ call_pc = "called"
    /\ call_args \in ReviewResponses
    /\ call_ret = NoReturn
    /\ ClockIdle
    /\ CodeIdle

\* _parse_review_response(response) returns (issues, passed)
ReviewParse ==
    /\ call_pc = "called"
    /\ call_ret' = [issues |-> parse_review_issues(call_args),
                    passed |-> parse_review_passed(call_args)]
    /\ call_pc' = "returned"
    /\ UNCHANGED call_args
    /\ UNCHANGED <<plannerVars, managerVars, streamVars, queueVars, execVars, agentVars, llm_calls,
                   clockVars, codeVars>>

SpecReview == ReviewParseInit /\ [][ReviewParse]_vars

(***************************************************************************)
(* _parse_review_response and _parse_builder_response on the lines of an   *)
(* answer, with the subscripts the code takes on the results of str.split  *)
(***************************************************************************)
BLOCKING == "=== BLOCKING ==="
NON_BLOCKING == "=== NON-BLOCKING ==="
VERDICT == "=== VERDICT ==="
CODE == "=== CODE ==="
TESTS == "=== TESTS ==="
\* a line that opens or closes a markdown code block (three backquotes)
Fence == "[fence]"

\* the lines a review answer is made of: the three markers, a list item, the
\* literal None, a verdict and any other line
ReviewLines == {BLOCKING, NON_BLOCKING, VERDICT, "- issue: fix", "None", "PASS", "text"}

\* the lines a build answer is made of: the two markers, a code fence and
\* any other line
BuildLines == {CODE, TESTS, Fence, "code"}

TextsOf(lines) == UNION {[1..n -> lines] : n \in 0..MaxTextLen}

\* a membership test that finds every marker
contains_always(marker, text) == TRUE

\* marker in text
contains(marker, text) == \E i \in 1..Len(text) : text[i] = marker

\* text.split(marker): the parts between the occurrences of the marker
RECURSIVE split(_, _)
split(text, marker) ==
    IF \A i \in 1..Len(text) : text[i] # marker THEN <<text>>
    ELSE LET k == CHOOSE i \in 1..Len(text) :
                     text[i] = marker /\ \A j \in 1..(i - 1) : text[j] # marker
         IN <<SubSeq(text, 1, k - 1)>> \o split(SubSeq(text, k + 1, Len(text)), marker)

\* parts[i] of a Python list, i counted from 0 (from the end when negative):
\* the element, or IndexError
Subscript(parts, i) ==
    LET k == IF i >= 0 THEN i + 1 ELSE Len(parts) + i + 1
    IN IF k \in 1..Len(parts)
       THEN [raised |-> FALSE, value |-> parts[k]]
       ELSE [raised |-> TRUE, value |-> <<>>]

\* the issues of the lines of a section: none when the section is empty or
\* is the literal None, one per line that starts with "-" otherwise
line_issues(section, severity, category) ==
    IF section = <<>> \/ (Len(section) = 1 /\ lower(section[1]) = "none") THEN <<>>
    ELSE Repeat(ReviewIssue(severity, category),
                Len(SelectSeq(section, LAMBDA l : l = "- issue: fix")))

\* the section after a marker, cut at the first of the markers that may end
\* it (the order of ends is the order of the elif chain)
section_of(text, marker, ends) ==
    LET after == Subscript(split(text, marker), 1)
        found == SelectSeq(ends, LAMBDA e : contains(e, after.value))
    IN IF after.raised THEN after
       ELSE IF found = <<>> THEN after
       ELSE Subscript(split(after.value, found[1]), 0)

\* _parse_review_response(response): issues, passed, and whether a subscript
\* raised
parse_review_text(text) ==
    LET blocking == IF contains(BLOCKING, text)
                    THEN section_of(text, BLOCKING, <<NON_BLOCKING, VERDICT>>)
                    ELSE [raised |-> FALSE, value |-> <<>>]
        nonblocking == IF contains(NON_BLOCKING, text)
                       THEN section_of(text, NON_BLOCKING, <<VERDICT>>)
                       ELSE [raised |-> FALSE, value |-> <<>>]
        verdict == IF contains(VERDICT, text)
                   THEN Subscript(split(text, VERDICT), 1)
                   ELSE [raised |-> FALSE, value |-> <<>>]
        verdict_line == IF verdict.value = <<>> THEN "" ELSE verdict.value[1]
        issues == line_issues(blocking.value, "error", "blocking")
                     \o line_issues(nonblocking.value, "warning", "non-blocking")
    IN [issues |-> issues,
        passed |-> IF contains(VERDICT, text) THEN upper(verdict_line) = "PASS"
                   ELSE error_count(issues) = 0,
        raised |-> blocking.raised \/ nonblocking.raised \/ verdict.raised]

\* re.findall of the code-block pattern: the lines between the first fence
\* and the next one, then those of the following pairs of fences
RECURSIVE code_blocks(_)
code_blocks(text) ==
    LET fences == {i \in 1..Len(text) : text[i] = Fence}
    IN IF Cardinality(fences) < 2 THEN <<>>
       ELSE LET a == CHOOSE i \in fences : \A j \in fences : i <= j
                b == CHOOSE i \in fences \ {a} : \A j \in fences \ {a} : i <= j
            IN <<SubSeq(text, a + 1, b - 1)>> \o code_blocks(SubSeq(text, b + 1, Len(text)))

RECURSIVE join(_)
join(parts) == IF parts = <<>> THEN <<>> ELSE Head(parts) \o join(Tail(parts))

\* _strip_markdown_code_blocks(text)
strip_markdown_code_blocks(text) ==
    IF code_blocks(text) # <<>> THEN join(code_blocks(text))
    ELSE IF Len(text) > 0 /\ text[1] = Fence
    THEN LET lines == Tail(text)
         IN IF lines # <<>> /\ Subscript(lines, -1).value = Fence
            THEN SubSeq(lines, 1, Len(lines) - 1) ELSE lines
    ELSE text

\* _parse_builder_response(response): code, tests, and whether a subscript
\* raised
parse_builder_response(text) ==
    IF contains(CODE, text) /\ contains(TESTS, text)
    THEN LET parts == split(text, TESTS)
         IN IF Len(parts) = 2
            THEN [code |-> strip_markdown_code_blocks(
                              SelectSeq(Subscript(parts, 0).value, LAMBDA l : l # CODE)),
                  tests |-> strip_markdown_code_blocks(Subscript(parts, 1).value),
                  raised |-> Subscript(parts, 0).raised \/ Subscript(parts, 1).raised]
            ELSE [code |-> <<>>, tests |-> <<>>, raised |-> FALSE]
    ELSE IF contains(CODE, text)
    THEN LET code_part == Subscript(split(text, CODE), -1)
         IN [code |-> strip_markdown_code_blocks(code_part.value), tests |-> <<>>,
             raised |-> code_part.raised]
    ELSE [code |-> strip_markdown_code_blocks(text), tests |-> <<>>, raised |-> FALSE]

\* one call of either parser on the content of a backend answer
TextParseInit ==
    /\ PlannerIdle
    /\ ManagerIdle
    /\ StreamIdle
    /\ QueueIdle
    /\ ExecIdle
    /\ AgentIdle
    /\ llm_calls = <<>>
    /\ call_pc = "called"
    /\ call_args \in [fn : {"review"}, text : TextsOf(ReviewLines)]
                       \cup [fn : {"build"}, text : TextsOf(BuildLines)]
    /\ call_ret = NoReturn
    /\ ClockIdle
    /\ CodeIdle

ParseReviewText ==
    /\ call_pc = "called"
    /\ call_args.fn = "review"
    /\ call_ret' = parse_review_text(call_args.text)
    /\ call_pc' = IF call_ret'.raised THEN "raised" ELSE "returned"
    /\ UNCHANGED call_args
    /\ UNCHANGED <<plannerVars, managerVars, streamVars, queueVars, execVars, agentVars, llm_calls,
                   clockVars, codeVars>>

ParseBuilderResponse ==
    /\ call_pc = "called"
    /\ call_args.fn = "build"
    /\ call_ret' = parse_builder_response(call_args.text)
    /\ call_pc' = IF call_ret'.raised THEN "raised" ELSE "returned"
    /\ UNCHANGED call_args
    /\ UNCHANGED <<plannerVars, managerVars, streamVars, queueVars, execVars, agentVars, llm_calls,
                   clockVars, codeVars>>

TextParseNext ==
    \/ ParseReviewText
    \/ ParseBuilderResponse

SpecText == TextParseInit /\ [][TextParseNext]_vars

(***************************************************************************)
(* EventQueue (api/workflow_events.py) with concurrent producers           *)
(***************************************************************************)
Producers == 1..NumProducers

agent_id(p) == "agent-" \o ToString(p)

\* a put at the head of the queue
queue_put_front(q, item) == <<item>> \o q

\* asyncio.Queue.put on the unbounded queue of EventQueue
queue_put(q, item) == Append(q, item)

QueueInit ==
    /\ PlannerIdle
    /\ AgentIdle
    /\ llm_calls = <<>>
    /\ CallIdle
    /\ ClockIdle
    /\ CodeIdle
    /\ ManagerIdle
    /\ ExecIdle
    /\ event_queue = <<>>
    /\ cpc = "loop"
    /\ c_result = NoResult
    /\ c_error = ""
    /\ out = <<>>
    /\ pushed = <<>>
    /\ sent = [p \in Producers |-> 0]

\* EventQueue.push, called by producer p with its next event
QueuePush(p) ==
    /\ sent[p] < MaxPush
    /\ LET event == [Ev("node_start") EXCEPT !.step = agent_id(p), !.attempt = sent[p] + 1]
       IN /\ event_queue' = queue_put(event_queue, event)
          /\ pushed' = Append(pushed, event)
    /\ sent' = [sent EXCEPT ![p] = sent[p] + 1]
    /\ UNCHANGED <<cpc, c_result, c_error, out>>
    /\ UNCHANGED <<plannerVars, managerVars, execVars, agentVars, llm_calls, callVars, clockVars, codeVars>>

\* EventQueue.complete: the end-of-stream sentinel
QueueComplete ==
    /\ \A i \in 1..Len(pushed) : pushed[i] # None
    /\ event_queue' = queue_put(event_queue, None)
    /\ pushed' = Append(pushed, None)
    /\ UNCHANGED <<sent, cpc, c_result, c_error, out>>
    /\ UNCHANGED <<plannerVars, managerVars, execVars, agentVars, llm_calls, callVars, clockVars, codeVars>>

\* a read loop that also ends when it finds the queue drained
QueueEvents_drained ==
    /\ cpc = "loop"
    /\ Len(event_queue) > 0
    /\ LET event == Head(event_queue)
       IN /\ event_queue' = Tail(event_queue)
          /\ IF event = None
             THEN cpc' = "done" /\ out' = out
             ELSE /\ cpc' = IF Len(event_queue) = 1 THEN "done" ELSE cpc
                  /\ out' = Append(out, event)
    /\ UNCHANGED <<c_result, c_error, pushed, sent>>
    /\ UNCHANGED <<plannerVars, managerVars, execVars, agentVars, llm_calls, callVars, clockVars, codeVars>>

\* one iteration of EventQueue.events (TaskExecution.progress is the same
\* loop): get an item, break on None, yield anything else
QueueEvents ==
    /\ cpc = "loop"
    /\ Len(event_queue) > 0
    /\ LET event == Head(event_queue)
       IN /\ event_queue' = Tail(event_queue)
          /\ IF event = None
             THEN cpc' = "done" /\ out' = out
             ELSE cpc' = cpc /\ out' = Append(out, event)
    /\ UNCHANGED <<c_result, c_error, pushed, sent>>
    /\ UNCHANGED <<plannerVars, managerVars, execVars, agentVars, llm_calls, callVars, clockVars, codeVars>>

QueueNext ==
    \/ \E p \in Producers : QueuePush(p)
    \/ QueueComplete
    \/ QueueEvents

SpecQueue == QueueInit /\ [][QueueNext]_vars

(***************************************************************************)
(* Stage-by-stage execution of a multi-step plan                           *)
(***************************************************************************)
NumStages == 2

StepsOfStage(k) == {<<k, i>> : i \in 1..stage_sizes[k]}

AllSteps == UNION {StepsOfStage(k) : k \in 1..Len(stage_sizes)}

Terminal(s) == step_status[s] \in {"completed", "failed"}

\* a barrier that one terminal step opens
StageTerminal_any(k) == \E s \in StepsOfStage(k) : Terminal(s)

\* every step of stage k has reached a terminal state
StageTerminal(k) == \A s \in StepsOfStage(k) : Terminal(s)

StageFailed(k) == \E s \in StepsOfStage(k) : step_status[s] = "failed"

ExecInit ==
    /\ PlannerIdle
    /\ AgentIdle
    /\ llm_calls = <<>>
    /\ CallIdle
    /\ ClockIdle
    /\ CodeIdle
    /\ ManagerIdle
    /\ StreamIdle
    /\ QueueIdle
    /\ stage_sizes \in [1..NumStages -> 1..MaxStageSteps]
    /\ current_stage = 0
    /\ step_status = [s \in AllSteps |-> "pending"]
    /\ step_attempt = [s \in AllSteps |-> 0]
    /\ step_reviews = [s \in AllSteps |-> <<>>]
    /\ run_outcome = "running"

\* the orchestrator stages the next ExecutionStage: every step of it starts
\* its first BUILD
ExecStartStage ==
    /\ run_outcome = "running"
    /\ current_stage < Len(stage_sizes)
    /\ current_stage > 0 => (StageTerminal(current_stage) /\ ~StageFailed(current_stage))
    /\ current_stage' = current_stage + 1
    /\ step_status' = [s \in AllSteps |->
                          IF s \in StepsOfStage(current_stage + 1)
                          THEN "in_progress" ELSE step_status[s]]
    /\ step_attempt' = [s \in AllSteps |->
                          IF s \in StepsOfStage(current_stage + 1)
                          THEN 1 ELSE step_attempt[s]]
    /\ UNCHANGED <<stage_sizes, step_reviews, run_outcome>>
    /\ UNCHANGED <<plannerVars, managerVars, streamVars, queueVars, agentVars, llm_calls, callVars, clockVars, codeVars>>

\* a step whose terminal failure also ends the siblings still running in its
\* stage
ExecStepReviewed_cancel(s) ==
    /\ step_status[s] = "in_progress"
    /\ \E passed \in BOOLEAN :
          LET route == should_retry_or_continue(passed, step_attempt[s], MAX_ATTEMPTS)
          IN /\ step_status' = [t \in AllSteps |->
                                   IF t = s
                                   THEN CASE route = "continue" -> "completed"
                                          [] route = "retry" -> "in_progress"
                                          [] route = "fail" -> "failed"
                                   ELSE IF route = "fail" /\ step_status[t] = "in_progress"
                                   THEN "failed"
                                   ELSE step_status[t]]
             /\ step_attempt' = [step_attempt EXCEPT ![s] =
                                   IF route = "retry" THEN @ + 1 ELSE @]
             /\ step_reviews' = [step_reviews EXCEPT ![s] = Append(@, passed)]
    /\ UNCHANGED <<stage_sizes, current_stage, run_outcome>>
    /\ UNCHANGED <<plannerVars, managerVars, streamVars, queueVars, agentVars, llm_calls, callVars, clockVars, codeVars>>

\* the REVIEW of one running step ends; the step's own state machine decides
ExecStepReviewed(s) ==
    /\ step_status[s] = "in_progress"
    /\ \E passed \in BOOLEAN :
          LET route == should_retry_or_continue(passed, step_attempt[s], MAX_ATTEMPTS)
          IN /\ step_status' = [step_status EXCEPT ![s] =
                                   CASE route = "continue" -> "completed"
                                     [] route = "retry" -> "in_progress"
                                     [] route = "fail" -> "failed"]
             /\ step_attempt' = [step_attempt EXCEPT ![s] =
                                   IF route = "retry" THEN @ + 1 ELSE @]
             /\ step_reviews' = [step_reviews EXCEPT ![s] = Append(@, passed)]
    /\ UNCHANGED <<stage_sizes, current_stage, run_outcome>>
    /\ UNCHANGED <<plannerVars, managerVars, streamVars, queueVars, agentVars, llm_calls, callVars, clockVars, codeVars>>

\* the aggregate decision at the barrier of the current stage: the run fails
\* when a step of the stage failed, and completes after the last stage
ExecFinish ==
    /\ run_outcome = "running"
    /\ current_stage > 0
    /\ StageTerminal(current_stage)
    /\ StageFailed(current_stage) \/ current_stage = Len(stage_sizes)
    /\ run_outcome' = IF StageFailed(current_stage) THEN "failed" ELSE "completed"
    /\ UNCHANGED <<stage_sizes, current_stage, step_status, step_attempt, step_reviews>>
    /\ UNCHANGED <<plannerVars, managerVars, streamVars, queueVars, agentVars, llm_calls, callVars, clockVars, codeVars>>

ExecNext ==
    \/ ExecStartStage
    \/ \E s \in AllSteps : ExecStepReviewed(s)
    \/ ExecFinish

SpecExec == ExecInit /\ [][ExecNext]_vars

(***************************************************************************)
(* Plans the claims call valid                                             *)
(***************************************************************************)
DistinctIds(s) == \A i, j \in 1..Len(s) : i # j => s[i].id # s[j].id

KnownDeps(s) == \A i \in 1..Len(s) : s[i].depends_on \subseteq StepIds(s)

\* ids reachable from id along depends_on edges in at most n hops (n >= 1)
RECURSIVE DepsWithin(_, _, _)
DepsWithin(s, id, n) ==
    LET direct == UNION {s[i].depends_on : i \in {j \in 1..Len(s) : s[j].id = id}}
    IN IF n <= 1 THEN direct
       ELSE direct \cup UNION {DepsWithin(s, d, n - 1) : d \in direct}

Acyclic(s) == \A i \in 1..Len(s) : s[i].id \notin DepsWithin(s, s[i].id, Len(s))

ValidPlan(s) == DistinctIds(s) /\ KnownDeps(s) /\ Acyclic(s)

\* the stage index (1-based) that holds step id, 0 when none does
StageOf(id) ==
    IF \E k \in 1..Len(stages) : id \in StepIds(stages[k])
    THEN CHOOSE k \in 1..Len(stages) : id \in StepIds(stages[k])
    ELSE 0

\* how many times a step with this id occurs in the flattened stages
RECURSIVE SumLens(_, _)
SumLens(ss, k) == IF k = 0 THEN 0 ELSE Len(ss[k]) + SumLens(ss, k - 1)

\* C1: for every valid plan (distinct ids, known dependencies, acyclic) the
\* stages returned by get_execution_stages put every dependency of a step in
\* a strictly earlier stage than the step, and hold every step exactly once,
\* so the flattened stages are a topological order of the dependency graph.
C1_TopologicalOrder ==
    (spc = "done" /\ ValidPlan(steps)) =>
        /\ \A i \in 1..Len(steps) : StageOf(steps[i].id) >= 1
        /\ SumLens(stages, Len(stages)) = Len(steps)
        /\ \A k \in 1..Len(stages) : \A m \in 1..Len(stages[k]) :
              \A d \in stages[k][m].depends_on :
                 \E j \in 1..(k - 1) : d \in StepIds(stages[j])

C1_Witness ==
    /\ spc = "done"
    /\ ValidPlan(steps)
    /\ Len(steps) = 3
    /\ Len(stages) = 2
    /\ Len(stages[2]) = 2

\* the latest stage that holds one of the ids (0 for no ids)
LatestStage(ids) ==
    IF ids = {} THEN 0
    ELSE CHOOSE k \in {StageOf(d) : d \in ids} : \A d \in ids : StageOf(d) <= k

IsDiamond(s) == Len(s) = 5 /\ Range(s) = Range(Diamond)

\* C15: every stage of a returned stage list is maximal: a step is in the
\* stage right after the latest stage of its dependencies, so in stage 1 when
\* it has none (it is never held back for a later stage). The diamond config
\* -> {snake, food} -> collision -> game_loop, in whatever order its steps
\* are listed, gives exactly 4 stages, with stage 2 being snake and food.
C15_StagesAreMaximal ==
    spc = "done" =>
        /\ \A i \in 1..Len(steps) :
              /\ \A d \in steps[i].depends_on : StageOf(d) >= 1
              /\ StageOf(steps[i].id) = LatestStage(steps[i].depends_on) + 1
        /\ IsDiamond(steps) =>
              /\ Len(stages) = 4
              /\ Len(stages[2]) = 2
              /\ StepIds(stages[2]) = {2, 3}

\* the diamond listed with food before snake and config last
C15_Witness ==
    /\ spc = "done"
    /\ IsDiamond(steps)
    /\ steps[5].id = 1
    /\ Len(stages) = 4
    /\ stages[2][1].id = 3
    /\ stages[2][2].id = 2

\* the length of the longest dependency chain that ends in step id
RECURSIVE Depth(_, _)
Depth(s, id) ==
    LET deps == UNION {s[i].depends_on : i \in {j \in 1..Len(s) : s[j].id = id}}
    IN IF deps = {} THEN 1
       ELSE 1 + (CHOOSE m \in {Depth(s, d) : d \in deps} :
                    \A d \in deps : Depth(s, d) <= m)

MaxDepth(s) ==
    IF Len(s) = 0 THEN 0
    ELSE CHOOSE m \in {Depth(s, s[i].id) : i \in 1..Len(s)} :
            \A i \in 1..Len(s) : Depth(s, s[i].id) <= m

\* the stages as a function of the plan alone: stage k lists, in the order of
\* the plan's step list, the steps whose longest dependency chain has length k
ExpectedStages(s) ==
    [k \in 1..MaxDepth(s) |-> SelectSeq(s, LAMBDA x : Depth(s, x.id) = k)]

\* C16: stage computation is a deterministic pure function of the plan: from
\* the moment get_execution_stages is called the plan's step list (ids,
\* dependencies, statuses) never changes, and the stages it returns are the
\* ones the plan alone determines, each stage listing its steps in the order
\* they have in the plan's step list; so two calls on one plan return equal
\* stage lists.
C16_StagesArePure ==
    [][/\ spc' # "plan" => steps' = steps
       /\ spc' = "done" => stages' = ExpectedStages(steps')]_vars

\* the diamond listed with game_loop first and food before snake
C16_Witness ==
    /\ spc = "done"
    /\ IsDiamond(steps)
    /\ steps[1].id = 5
    /\ Len(stages) = 4
    /\ stages[2] = <<Diamond[3], Diamond[2]>>

\* id lies on a dependency cycle of the plan s
OnCycle(s, id) == id \in DepsWithin(s, id, Len(s))

\* the ids held by the stages built so far
StagedInStages == UNION {StepIds(stages[k]) : k \in 1..Len(stages)}

\* C12: for a plan that contains a dependency cycle, get_execution_stages
\* never returns a stage list: it ends with the circular-dependency error,
\* and the error names exactly the ids that are in no stage; when the ids of
\* the plan are distinct these include every id on a cycle (both A and B for
\* A <-> B), so at least two ids or a self-dependent one are named.
C12_CycleIsAnError ==
    (~Acyclic(steps) /\ spc \notin {"plan", "loop"}) =>
        /\ spc = "error"
        /\ unstaged = StepIds(steps) \ StagedInStages
        /\ DistinctIds(steps) =>
              /\ unstaged # {}
              /\ \A id \in StepIds(steps) : OnCycle(steps, id) => id \in unstaged

\* a config step that is staged, and two steps that depend on each other
C12_Witness ==
    /\ spc = "error"
    /\ DistinctIds(steps)
    /\ Len(steps) = 3
    /\ Len(stages) = 1
    /\ Cardinality(unstaged) = 2
    /\ \A id \in unstaged : OnCycle(steps, id)

(***************************************************************************)
(* The per-unit workflow of LangGraphManager                               *)
(***************************************************************************)
\* the phase of the workflow a position of the run belongs to
PhaseOf(pc, success) ==
    CASE pc \in {"idle", "run"} -> "NEW"
      [] pc \in {"b_enter", "b_plan", "b_code", "b_fix"} -> "BUILD"
      [] pc \in {"r_enter", "r_call"} -> "REVIEW"
      [] pc \in {"d_enter", "d_call"} -> "FINALIZE"
      [] pc \in {"END", "returned"} -> IF success THEN "DONE" ELSE "FAILED"
      [] pc = "raised" -> "ABORTED"

Phase == PhaseOf(mpc, state.success)

Count(s, x) == Len(SelectSeq(s, LAMBDA y : y = x))

Last(s) == s[Len(s)]

\* C2: the workflow takes only the transitions BUILD -> REVIEW, REVIEW ->
\* FINALIZE (no blocking issue), REVIEW -> BUILD (blocking issue, attempts <
\* max), REVIEW -> FAILED (blocking issue, attempts = max), FINALIZE -> DONE.
C2_OnlyTheseTransitions ==
    [][Phase' # Phase =>
         \/ Phase = "NEW" /\ Phase' = "BUILD"
         \/ Phase = "BUILD" /\ Phase' = "REVIEW"
         \/ /\ Phase = "REVIEW" /\ Phase' = "FINALIZE"
            /\ error_count(state'.issues) = 0
         \/ /\ Phase = "REVIEW" /\ Phase' = "BUILD"
            /\ error_count(state'.issues) > 0
            /\ state'.attempt < state'.max_attempts
         \/ /\ Phase = "REVIEW" /\ Phase' = "FAILED"
            /\ error_count(state'.issues) > 0
            /\ state'.attempt = state'.max_attempts
         \/ Phase = "FINALIZE" /\ Phase' = "DONE"]_vars

\* the run is over: run returned its ProjectResult or raised
RunOver == mpc \in {"returned", "raised"}

\* every BUILD started so far was followed by a REVIEW that ended with a
\* blocking issue
EveryAttemptBlocked ==
    /\ Len(reviews) = Count(phases, "BUILD")
    /\ \A i \in 1..Len(reviews) : reviews[i] > 0

\* C3: with the attempt budget of 3, a unit whose review reports a blocking
\* issue on every attempt performs exactly 3 BUILDs and 3 REVIEWs and then
\* reports success = false with 3 attempts; a fourth BUILD is never started.
C3_ThreeAttemptsThenFailure ==
    /\ Count(phases, "BUILD") <= 3
    /\ (RunOver /\ EveryAttemptBlocked) =>
          /\ Count(phases, "BUILD") = 3
          /\ Count(phases, "REVIEW") = 3
          /\ result.returned
          /\ ~result.success
          /\ result.total_attempts = 3

C3_Witness ==
    /\ mpc = "returned"
    /\ EveryAttemptBlocked
    /\ Count(phases, "BUILD") = 3

\* C4: FINALIZE runs at most once, only directly after a REVIEW that found no
\* blocking issue, no BUILD or REVIEW runs after it, and a run that ends
\* FAILED never runs FINALIZE.
C4_FinalizeOnceAfterCleanReview ==
    /\ Count(phases, "FINALIZE") <= 1
    /\ \A i \in 1..Len(phases) :
          phases[i] = "FINALIZE" =>
             /\ i = Len(phases)
             /\ i > 1
             /\ phases[i - 1] = "REVIEW"
             /\ Len(reviews) = Count(phases, "REVIEW")
             /\ Last(reviews) = 0
    /\ Phase = "FAILED" => Count(phases, "FINALIZE") = 0

C4_Witness ==
    /\ mpc = "returned"
    /\ Count(phases, "BUILD") = 2
    /\ Count(phases, "FINALIZE") = 1

\* the last allowed attempt was reviewed and the review found a blocking issue
CeilingReached ==
    /\ Len(reviews) = MAX_ATTEMPTS
    /\ Last(reviews) > 0

\* C5: reaching the attempt ceiling with blocking issues outstanding makes run
\* return (not raise) an outcome with success = false and a non-empty reason
\* that states the blocking issues of the last review and the attempts
\* consumed, and the stream ends with a result event, not an error event.
C5_CeilingIsReportedFailure ==
    CeilingReached =>
        /\ mpc \in {"END", "returned"}
        /\ mpc = "returned" =>
              /\ result.returned
              /\ ~result.success
              /\ result.error_message # NoMessage
              /\ result.error_message = <<"Review failed", Last(reviews), MAX_ATTEMPTS>>
        /\ \A i \in 1..Len(out) : out[i].event # "error"
        /\ cpc = "closed" =>
              /\ Len(out) > 0
              /\ Last(out).event = "result"
              /\ ~Last(out).passed
              /\ Last(out).error_message = <<"Review failed", Last(reviews), MAX_ATTEMPTS>>

C5_Witness ==
    /\ CeilingReached
    /\ cpc = "closed"

\* C6: a backend failure during BUILD or REVIEW is recorded as a blocking
\* issue of category "infrastructure" and consumes an attempt; it does not
\* abort the run with an exception.
C6_BackendFailureConsumesAttempt ==
    ~(mpc = "raised" /\ Last(phases) \in {"BUILD", "REVIEW"})

(***************************************************************************)
(* The syntax check of REVIEW                                              *)
(***************************************************************************)
\* this step starts a REVIEW
ReviewStarts == phases' = Append(phases, "REVIEW")

\* C19: REVIEW checks the syntax of the artifact before it consults the
\* backend. When the artifact is empty or does not parse, the review ends in
\* that same step, failed, with the syntax issue as its single (blocking)
\* issue, and without a backend call; the backend is called for a review
\* only after the syntax check of a parsing artifact.
C19_SyntaxCheckFirst ==
    [][/\ (ReviewStarts /\ state.code \in {"", "bad"}) =>
             /\ llm_calls' = llm_calls
             /\ mpc' \in {"b_enter", "END"}
             /\ ~state'.review_passed
             /\ state'.issues = <<ReviewIssue("error", "syntax")>>
             /\ reviews' = Append(reviews, 1)
       /\ llm_calls' = Append(llm_calls, "review") =>
             /\ ReviewStarts
             /\ state.code = "ok"]_vars

\* the first artifact parsed and its review asked the backend; the second
\* artifact does not parse and its review ended without a backend call
C19_Witness ==
    /\ Len(phases) = 4
    /\ Last(phases) = "REVIEW"
    /\ state.code = "bad"
    /\ state.issues = <<ReviewIssue("error", "syntax")>>
    /\ Count(llm_calls, "review") = 1
    /\ Len(reviews) = 2

(***************************************************************************)
(* Parsing of a review response                                            *)
(***************************************************************************)
\* the lines of a section that are list items with text
ItemLines(section) ==
    IF section.present /\ ~section.none
    THEN Len(SelectSeq(section.lines, LAMBDA l : l # "text"))
    ELSE 0

\* the blocking issues in the returned issue list
BlockingParsed == Len(SelectSeq(call_ret.issues, LAMBDA i : i.severity = "error"))

StepPhases ==
    {<<"builder_planning", "planning">>, <<"builder_coding", "coding">>,
     <<"reviewer_planning", "planning">>, <<"reviewer_step", "syntax">>,
     <<"reviewer_step", "review">>}

IsStart(e, P) == e.event = P[1] \o "_start" /\ e.step = P[2]

IsComplete(e, P) == e.event = P[1] \o "_complete" /\ e.step = P[2]

\* started minus completed occurrences of phase P in the stream s
Open(s, P) ==
    Len(SelectSeq(s, LAMBDA e : IsStart(e, P)))
        - Len(SelectSeq(s, LAMBDA e : IsComplete(e, P)))

\* C9: in the stream of one step, the complete event of a phase never comes
\* before its start event, and a phase is completed before the next phase of
\* the step starts: at any moment at most one phase is open, and none is
\* completed more often than started.
C9_StartBeforeComplete ==
    /\ \A P \in StepPhases : Open(out, P) \in {0, 1}
    /\ \A P, Q \in StepPhases : (Open(out, P) = 1 /\ Open(out, Q) = 1) => P = Q

C9_Witness ==
    /\ cpc = "closed"
    /\ Count(phases, "BUILD") = 2
    /\ Len(SelectSeq(out, LAMBDA e : IsComplete(e, <<"reviewer_step", "review">>))) = 2

(***************************************************************************)
(* The event stream                                                        *)
(***************************************************************************)
\* items the consumer has taken from the queue so far
Consumed == Len(pushed) - Len(event_queue)

\* C7: the read loop delivers every event pushed before the stream was
\* closed, ends exactly when it reads the end-of-stream sentinel (never
\* before), and delivers nothing after it.
C7_LoopEndsAtSentinel ==
    /\ cpc = "loop" =>
          /\ \A i \in 1..Consumed : pushed[i] # None
          /\ Len(out) = Consumed
    /\ cpc = "done" =>
          /\ Consumed >= 1
          /\ pushed[Consumed] = None
          /\ \A i \in 1..(Consumed - 1) : pushed[i] # None
          /\ out = SubSeq(pushed, 1, Consumed - 1)

C7_Witness ==
    /\ cpc = "done"
    /\ Len(out) = 2
    /\ Len(event_queue) = 2

\* C8: events reach the consumer in exactly the order in which they were
\* pushed, also with several concurrent producers: what was delivered,
\* followed by what is still queued, is what was pushed; nothing is lost,
\* duplicated or reordered.
C8_FifoDelivery ==
    pushed = (IF cpc = "loop" THEN out ELSE Append(out, None)) \o event_queue

C8_Witness ==
    /\ Len(out) = 4
    /\ out[1].step # out[2].step
    /\ out[2].step # out[3].step
    /\ out[3].step # out[4].step

(***************************************************************************)
(* The stage barrier                                                       *)
(***************************************************************************)
\* C10: no step of stage k+1 starts its BUILD before every step of stage k
\* has reached a terminal state (completed or failed).
C10_StageBarrier ==
    \A k \in 1..(Len(stage_sizes) - 1) :
        (\E s \in StepsOfStage(k + 1) : step_status[s] # "pending")
            => \A t \in StepsOfStage(k) : step_status[t] \in {"completed", "failed"}

C10_Witness ==
    /\ Len(stage_sizes) >= 2
    /\ stage_sizes[1] = 2
    /\ \E s \in StepsOfStage(2) : step_status[s] = "in_progress" /\ step_attempt[s] = 2
    /\ \E t \in StepsOfStage(1) : step_attempt[t] = 3

(***************************************************************************)
(* Validation of a decomposition by parse_llm_response                     *)
(***************************************************************************)
\* parse_llm_response ran on the answer of the backend
Parsed == ppc \in {"stages", "done", "raised"} /\ plan_error.kind # "backend"
              /\ Len(llm_calls) = 1

\* every step object of r carries an id and a task
HasFields(r) == \A i \in 1..Len(r) : {"id", "task"} \subseteq r[i].keys

\* some step of r names a dependency that is the id of no step of r
HasUnknownDep(r) == \E i \in 1..Len(r) : r[i].depends_on \ StepIds(r) # {}

\* C13: a decomposition whose steps all carry an id and a task and in which a
\* step depends on an id that no step has is rejected and no plan is returned. The error is the unknown-dependency
\* error, naming a step and an id of its depends_on that no step has, unless
\* two steps share an id: the duplicate check of the parsing loop runs
\* before the dependency validation and raises first.
C13_UnknownDependencyRejected ==
    (Parsed /\ HasFields(response) /\ HasUnknownDep(response)) =>
        /\ ppc = "raised"
        /\ steps = <<>>
        /\ Len(plan_events) = 2
        /\ plan_error.kind \in {"unknown_dependency", "duplicate_id"}
        /\ DistinctIds(response) => plan_error.kind = "unknown_dependency"
        /\ plan_error.kind = "unknown_dependency" =>
              \E i \in 1..Len(response) :
                 /\ response[i].id = plan_error.step
                 /\ plan_error.id \in response[i].depends_on
                 /\ plan_error.id \notin StepIds(response)

\* s1 is fine and s2 depends on s1 and on an id no step has
C13_Witness ==
    /\ ppc = "raised"
    /\ Len(response) = 2
    /\ DistinctIds(response)
    /\ response[1].depends_on = {}
    /\ response[2].depends_on \ StepIds(response) # {}
    /\ response[2].depends_on \cap StepIds(response) # {}
    /\ plan_error.step = response[2].id

\* C14: a decomposition whose steps all carry an id and a task and in which
\* two steps share an id is rejected with the
\* duplicate-id error naming an id that two steps have, and no plan is
\* returned; so the steps of every plan parse_llm_response returns have
\* pairwise distinct ids.
C14_DuplicateIdRejected ==
    /\ (Parsed /\ HasFields(response) /\ ~DistinctIds(response)) =>
          /\ ppc = "raised"
          /\ steps = <<>>
          /\ plan_error.kind = "duplicate_id"
          /\ \E i, j \in 1..Len(response) :
                i # j /\ response[i].id = plan_error.id /\ response[j].id = plan_error.id
    /\ (Parsed /\ ppc # "raised") => steps = parsed_steps(response)
    /\ Len(llm_calls) = 1 => DistinctIds(steps)

\* two steps with the same id and no other defect
C14_Witness ==
    /\ ppc = "raised"
    /\ Len(response) = 2
    /\ response[1].id = response[2].id
    /\ ~HasUnknownDep(response)
    /\ plan_error.id = response[1].id

(***************************************************************************)
(* Simple and complex tasks in create_plan                                 *)
(***************************************************************************)
\* the lowered task text holds the keyword "game"
HasGame == \E i \in 1..Len(task) : lower(task[i]) = "game"

\* the single step of a plan that needed no decomposition
MainStep == [id |-> "main", task |-> task, depends_on |-> {}, status |-> "pending"]

\* C17: a task with fewer words than min_complexity_words and without a
\* complexity keyword is planned with zero backend calls; its plan has
\* exactly one step (id "main", task equal to the input, no dependencies) and
\* create_plan returns it with exactly one stage.
C17_SimpleTaskNeedsNoBackend ==
    (Len(task) < min_complexity_words /\ ~HasGame) =>
        /\ llm_calls = <<>>
        /\ ppc \in {"start", "stages", "done"}
        /\ ppc # "start" =>
              /\ steps = <<MainStep>>
              /\ ~plan_events[2].is_complex
        /\ ppc = "done" =>
              /\ stages = <<(<<MainStep>>)>>
              /\ plan_events[Len(plan_events)].total_steps = 1
              /\ plan_events[Len(plan_events)].parallel_stages = 1

\* a two-word task without keyword under a threshold of three words
C17_Witness ==
    /\ ppc = "done"
    /\ task = <<"Sort", "Sort">>
    /\ min_complexity_words = 3
    /\ Len(stages) = 1

\* C18: a task that contains the keyword "game" (in any letter case) is
\* classified complex whatever its word count and whatever the configured
\* min_complexity_words, and create_plan then calls the backend exactly once,
\* for the decomposition, whether the call returns, raises, or its answer is
\* rejected.
C18_KeywordMakesComplex ==
    (HasGame /\ ppc # "start") =>
        /\ plan_events[2].event = "plan_analysis"
        /\ plan_events[2].is_complex
        /\ llm_calls = <<"decompose">>

\* a one-word task "Game" under a threshold of three words, planned with a
\* two-step decomposition
C18_Witness ==
    /\ ppc = "done"
    /\ task = <<"Game">>
    /\ min_complexity_words = 3
    /\ Len(steps) = 2
    /\ llm_calls = <<"decompose">>

\* the status and attempt counter a step has after the reviews rs, decided by
\* its own reviews alone
OwnStatus(rs) ==
    IF Len(rs) > 0 /\ rs[Len(rs)] THEN "completed"
    ELSE IF Len(rs) >= 3 THEN "failed"
    ELSE "in_progress"

OwnAttempt(rs) == IF OwnStatus(rs) = "in_progress" THEN Len(rs) + 1 ELSE Len(rs)

\* C11: in a stage with several concurrent steps, a step that ends FAILED
\* makes the overall run end failed, but only once every sibling step of the
\* stage has reached its own terminal state; each started step has its own
\* attempt counter, and its status and attempts are the ones its own reviews
\* decide, whatever a sibling's outcome was.
C11_SiblingsKeepTheirOutcome ==
    /\ \A s \in AllSteps :
          step_status[s] # "pending" =>
             /\ step_status[s] = OwnStatus(step_reviews[s])
             /\ step_attempt[s] = OwnAttempt(step_reviews[s])
    /\ run_outcome \in {"completed", "failed"} =>
          /\ \A s \in StepsOfStage(current_stage) :
                step_status[s] \in {"completed", "failed"}
          /\ run_outcome = "failed" <=>
                \E s \in AllSteps : step_status[s] = "failed"
    /\ (\E s \in AllSteps : step_status[s] = "failed") =>
          \A k \in (current_stage + 1)..Len(stage_sizes) :
             \A s \in StepsOfStage(k) : step_status[s] = "pending"

\* one step of a two-step stage has failed on its third review while its
\* sibling has not been reviewed yet: the run is still going and the sibling
\* is still in its first attempt
C11_Witness ==
    /\ run_outcome = "running"
    /\ current_stage = 1
    /\ stage_sizes[1] = 2
    /\ step_status[<<1, 1>>] = "failed"
    /\ step_reviews[<<1, 1>>] = <<FALSE, FALSE, FALSE>>
    /\ step_status[<<1, 2>>] = "in_progress"
    /\ step_attempt[<<1, 2>>] = 1
    /\ step_reviews[<<1, 2>>] = <<>>

(***************************************************************************)
(* Malformed answers in parse_llm_response                                 *)
(***************************************************************************)
\* create_plan left with the ValueError of the given kind and without a plan
RejectedWith(kinds) ==
    /\ ppc = "raised"
    /\ plan_error.kind \in kinds
    /\ steps = <<>>
    /\ stages = <<>>
    /\ Len(plan_events) = 2

\* the step objects of r that lack "id" or "task"
Lacking(r) == {i \in 1..Len(r) : ~({"id", "task"} \subseteq r[i].keys)}

\* the steps of r whose id an earlier step of r carries
Repeating(r) == {i \in 1..Len(r) : \E j \in 1..(i - 1) : r[j].id = r[i].id}

\* C21: plan parsing raises an error that names the defect, and returns no
\* plan, when the top-level JSON value is not an object, when reasoning is
\* missing, when steps is missing (reasoning is looked for first), when steps
\* is the empty list, and when some step lacks id or task: the error then
\* names the first step that lacks one (id is looked for first), unless the
\* duplicate-id check has already stopped the loop at an earlier step.
C21_MalformedPlanRejected ==
    Parsed =>
        /\ data.type = "list" => RejectedWith({"not_object"})
        /\ (data.type = "dict" /\ "reasoning" \notin data.keys) =>
              RejectedWith({"missing_reasoning"})
        /\ (data.type = "dict" /\ "steps" \notin data.keys) =>
              /\ RejectedWith({"missing_reasoning", "missing_steps"})
              /\ "reasoning" \in data.keys => plan_error.kind = "missing_steps"
        /\ (data.keys = {"reasoning", "steps"} /\ data.steps_is_list /\ response = <<>>) =>
              RejectedWith({"empty_steps"})
        /\ Lacking(response) # {} =>
              /\ RejectedWith({"missing_id", "missing_task", "duplicate_id"})
              /\ \A i \in Lacking(response) :
                    (\A k \in Lacking(response) \cup Repeating(response) : i <= k) =>
                        /\ plan_error.step = ToString(i - 1)
                        /\ plan_error.kind =
                              IF "id" \in response[i].keys THEN "missing_task"
                              ELSE "missing_id"

\* an object with reasoning and two steps, the second of which has no task
C21_Witness ==
    /\ ppc = "raised"
    /\ data.keys = {"reasoning", "steps"}
    /\ Len(response) = 2
    /\ response[1].keys = StepKeys
    /\ response[2].keys = {"id", "depends_on"}
    /\ plan_error.kind = "missing_task"
    /\ plan_error.step = "1"

(***************************************************************************)
(* The parsers of build and review answers                                 *)
(***************************************************************************)
Markers == {BLOCKING, NON_BLOCKING, VERDICT, CODE, TESTS}

\* C22: parsing a build answer or a review answer never raises, whatever
\* the lines of the text and their order: the parser returns, a review
\* answer yields at most two issues per line (an item after both markers is
\* read in both sections) and a build answer an artifact made of lines of
\* the answer; a text without any marker yields the empty
\* issue list and a passing verdict, respectively (without code fence) the
\* whole text as the code and no tests.
C22_BuildAndReviewParsingNeverRaise ==
    /\ call_pc # "raised"
    /\ call_pc = "returned" =>
          /\ ~call_ret.raised
          /\ call_args.fn = "review" =>
                /\ Len(call_ret.issues) <= 2 * Len(call_args.text)
                /\ Range(call_args.text) \cap Markers = {} =>
                      call_ret.issues = <<>> /\ call_ret.passed
          /\ call_args.fn = "build" =>
                /\ Range(call_ret.code) \cup Range(call_ret.tests)
                      \subseteq Range(call_args.text)
                /\ Range(call_args.text) \cap (Markers \cup {Fence}) = {} =>
                      call_ret.code = call_args.text /\ call_ret.tests = <<>>

\* a review answer whose markers come in an order the format does not have:
\* the verdict first, then an item, then the BLOCKING marker with nothing
\* after it
C22_Witness ==
    /\ call_pc = "returned"
    /\ call_args.fn = "review"
    /\ call_args.text = <<VERDICT, "- issue: fix", BLOCKING>>
    /\ call_ret.issues = <<>>
    /\ ~call_ret.passed

(***************************************************************************)
(* Parsing a decomposition and staging the parsed plan                     *)
(***************************************************************************)
\* the answer is an object with reasoning and a non-empty list of steps that
\* all carry an id and a task, with distinct ids and known dependencies, and
\* without dependency cycle
WellFormedAnswer ==
    /\ data.type = "dict"
    /\ data.keys = {"reasoning", "steps"}
    /\ data.steps_is_list
    /\ Len(response) \in 1..MaxRespSteps
    /\ HasFields(response)
    /\ ValidPlan(response)

\* the number of places of the stages that hold the step x
Places(x) ==
    Cardinality({p \in (1..Len(stages)) \X (1..Len(steps)) :
                    p[2] <= Len(stages[p[1]]) /\ stages[p[1]][p[2]] = x})

\* C23: for every well-formed, acyclic decomposition of at most MaxRespSteps
\* steps, neither parse_llm_response nor get_execution_stages raises; the
\* parsed plan has the steps of the answer, in order, with their ids, tasks
\* and dependencies, and the stages returned hold each parsed step exactly
\* once and nothing else.
C23_ParseThenStageRoundTrip ==
    (Parsed /\ WellFormedAnswer) =>
        /\ ppc # "raised"
        /\ spc # "error"
        /\ plan_error = NoError
        /\ Len(steps) = Len(response)
        /\ \A i \in 1..Len(steps) :
              /\ steps[i].id = response[i].id
              /\ steps[i].task = response[i].task
              /\ steps[i].depends_on = response[i].depends_on
        /\ ppc = "done" =>
              /\ \A i \in 1..Len(steps) : Places(steps[i]) = 1
              /\ \A k \in 1..Len(stages) : Range(stages[k]) \subseteq Range(steps)

\* a two-step answer whose second step depends on the first: two stages
C23_Witness ==
    /\ ppc = "done"
    /\ WellFormedAnswer
    /\ Len(response) = 2
    /\ response[2].depends_on = {response[1].id}
    /\ Len(stages) = 2
    /\ stages[2][1].id = response[2].id

\* C24: every PlanStep of a plan that create_plan returns for a decomposed
\* task has a non-empty id and a non-empty task, and does not name its own
\* id in depends_on.
C24_PlanStepConstraints ==
    (ppc = "done" /\ Len(llm_calls) = 1) =>
        \A i \in 1..Len(steps) :
            /\ steps[i].id # ""
            /\ steps[i].task # <<>>
            /\ steps[i].id \notin steps[i].depends_on

(***************************************************************************)
(* Timestamps on the stream                                                *)
(***************************************************************************)
\* C25: the timestamps of the events delivered on one stream never decrease
\* in delivery order, the final result event included.
C25_TimestampsNonDecreasing ==
    \A i, j \in 1..Len(out) :
        (i < j /\ out[i].timestamp # -1 /\ out[j].timestamp # -1) =>
            out[i].timestamp <= out[j].timestamp

(***************************************************************************)
(* The events create_plan returns                                          *)
(***************************************************************************)
\* the events of the list with the given name
Named(name) == SelectSeq(plan_events, LAMBDA e : e.event = name)

\* C26: the events create_plan returns are plan_start, then plan_analysis,
\* then one plan_step_identified per step of the plan in plan order, then
\* plan_complete, and nothing else; total_steps of plan_complete is the
\* number of plan_step_identified events and parallel_stages the number of
\* stages computed. When create_plan raises (the backend, the parser or the
\* stage computation), no plan_complete event has been produced.
C26_PlanEventOrder ==
    /\ ppc = "done" =>
          /\ Len(plan_events) = Len(steps) + 3
          /\ plan_events[1].event = "plan_start"
          /\ plan_events[2].event = "plan_analysis"
          /\ \A i \in 1..Len(steps) :
                /\ plan_events[2 + i].event = "plan_step_identified"
                /\ plan_events[2 + i].step_id = steps[i].id
          /\ plan_events[Len(plan_events)].event = "plan_complete"
          /\ plan_events[Len(plan_events)].total_steps = Len(Named("plan_step_identified"))
          /\ plan_events[Len(plan_events)].parallel_stages = Len(stages)
    /\ ppc # "done" => Named("plan_complete") = <<>>

\* a decomposition into two independent steps: five events, two steps in one
\* stage
C26_Witness ==
    /\ ppc = "done"
    /\ Len(llm_calls) = 1
    /\ Len(plan_events) = 5
    /\ plan_events[3].step_id # plan_events[4].step_id
    /\ plan_events[5].total_steps = 2
    /\ plan_events[5].parallel_stages = 1

\* a decomposition whose two steps wait for each other: create_plan raises
\* after both plan_step_identified events
C26_RaisedWitness ==
    /\ ppc = "raised"
    /\ plan_error.kind = "circular_dependency"
    /\ Len(Named("plan_step_identified")) = 2

(***************************************************************************)
(* Retries of BUILD                                                        *)
(***************************************************************************)
\* BUILD is running: the state is still the one _builder_node was entered
\* with
Building == mpc \in {"b_plan", "b_code", "b_fix"}

\* C27: a StepTask that carries a non-empty issue list is a retry (is_retry
\* is true) and one with an empty issue list is not, whatever its
\* previous_code.
C27_IssuesMakeARetry ==
    Building =>
        (is_retry(step_task(state).issues, step_task(state).previous_code)
            <=> Len(step_task(state).issues) > 0)

\* C28: a plan returned by create_plan never has more steps than
\* config.max_steps: a decomposition with more steps is not returned as a
\* plan.
C28_PlanWithinMaxSteps ==
    ppc = "done" => Len(steps) <= max_steps

\* the backend calls made by BUILD so far, in order
BuildCalls == SelectSeq(llm_calls, LAMBDA c : c \in {"plan", "code", "fix"})

\* the number of BUILD phases entered so far
Builds == Count(phases, "BUILD")

\* C29: the first BUILD calls the backend exactly twice (plan, then
\* generate) and every later BUILD exactly once (fix given feedback); a BUILD
\* whose backend calls returned has produced its output: the attempt counter
\* has moved on and REVIEW is next.
C29_BuildCallCounts ==
    /\ \A i \in 1..Len(BuildCalls) :
          BuildCalls[i] = IF i = 1 THEN "plan" ELSE IF i = 2 THEN "code" ELSE "fix"
    /\ (Builds > 0 /\ ~Building /\ mpc # "raised") =>
          /\ Len(BuildCalls) = Builds + 1
          /\ state.attempt = Builds

\* C30: on every retry, BUILD gives the backend the artifact of the
\* preceding BUILD and all issues of the preceding REVIEW, the blocking ones
\* before the advisory ones; the feedback of a failed review is never
\* dropped.
C30_RetryGetsFeedback ==
    (Building /\ Builds > 1) =>
        LET context == build_context(step_task(state))
        IN /\ context.previous_code = state.code
           /\ Len(context.feedback) > 0
           /\ error_count(context.feedback) = error_count(state.issues)
           /\ warning_count(context.feedback) = warning_count(state.issues)
           /\ \A i, j \in 1..Len(context.feedback) :
                 (context.feedback[i].severity = "warning"
                     /\ context.feedback[j].severity = "error") => j < i

(***************************************************************************)
(* The sections of a build answer                                          *)
(***************************************************************************)
\* the index of the first line of text that is the marker (0: none)
FirstIndex(text, marker) ==
    IF \A i \in 1..Len(text) : text[i] # marker THEN 0
    ELSE CHOOSE i \in 1..Len(text) :
            text[i] = marker /\ \A j \in 1..(i - 1) : text[j] # marker

\* the marker is on one line of text at most
Once(text, marker) == Cardinality({i \in 1..Len(text) : text[i] = marker}) <= 1

\* C31: for a build answer with both markers, CODE first, the artifact is
\* the cleaned text between the CODE marker and the TESTS marker and the
\* tests are the cleaned text after the TESTS marker; with one CODE marker
\* only, the artifact is the cleaned text after it and the tests are empty;
\* without marker the artifact is the whole cleaned text. In each case a
\* section that holds a line of code yields a non-empty artifact.
C31_BuildSections ==
    (call_pc = "returned" /\ call_args.fn = "build") =>
        LET text == call_args.text
            c == FirstIndex(text, CODE)
            s == FirstIndex(text, TESTS)
            section == IF c # 0 /\ s # 0 THEN SubSeq(text, c + 1, s - 1)
                       ELSE IF c # 0 THEN SubSeq(text, c + 1, Len(text))
                       ELSE text
        IN (Once(text, CODE) /\ ((c # 0 /\ s # 0) => c < s)) =>
              /\ call_ret.code = strip_markdown_code_blocks(section)
              /\ call_ret.tests =
                    IF c # 0 /\ s # 0
                    THEN strip_markdown_code_blocks(SubSeq(text, s + 1, Len(text)))
                    ELSE <<>>
              /\ (\E i \in 1..Len(section) : section[i] = "code") => call_ret.code # <<>>

(***************************************************************************)
(* Termination of a run                                                    *)
(***************************************************************************)
\* C32: every run ends: when no backend call raises, run returns with the
\* workflow in DONE or FAILED; until then at most MAX_ATTEMPTS BUILD phases,
\* at most MAX_ATTEMPTS REVIEW phases and at most one FINALIZE phase were
\* started, and once the run is over the workflow takes no further step.
C32_RunTerminates ==
    /\ <>(mpc = "raised" \/ (mpc = "returned" /\ Phase \in {"DONE", "FAILED"}))
    /\ [](/\ Count(phases, "BUILD") <= MAX_ATTEMPTS
          /\ Count(phases, "REVIEW") <= MAX_ATTEMPTS
          /\ Count(phases, "FINALIZE") <= 1)
    /\ [][RunOver => UNCHANGED managerVars]_vars

\* a run that used its whole budget: the third review passed
C32_Witness ==
    /\ mpc = "returned"
    /\ Phase = "DONE"
    /\ Count(phases, "BUILD") = MAX_ATTEMPTS
    /\ Count(phases, "REVIEW") = MAX_ATTEMPTS
    /\ Count(phases, "FINALIZE") = 1

(***************************************************************************)
(* The attempt counter                                                     *)
(***************************************************************************)
\* the events of the run, read or still queued
Emitted == out \o SelectSeq(event_queue, LAMBDA e : e # None)

\* C33: as long as the run is not aborted by an exception, its attempt
\* counter is the number of BUILD phases started so far; during a REVIEW it
\* is between 1 and max_attempts; the total_attempts of the returned result
\* and of the manager_complete event are the number of BUILD phases of the run.
C33_AttemptCountsBuilds ==
    /\ mpc # "raised" => current_attempt = Count(phases, "BUILD")
    /\ mpc \in {"r_enter", "r_call"} =>
          state.attempt >= 1 /\ state.attempt <= state.max_attempts
    /\ result.returned => result.total_attempts = Count(phases, "BUILD")
    /\ c_result.returned => c_result.total_attempts = Count(phases, "BUILD")
    /\ \A i \in 1..Len(Emitted) :
          Emitted[i].event = "manager_complete" =>
              Emitted[i].attempt = Count(phases, "BUILD")

\* a run of two BUILD phases has returned
C33_Witness ==
    /\ result.returned
    /\ result.total_attempts = 2
    /\ Count(phases, "BUILD") = 2
    /\ \E i \in 1..Len(Emitted) :
          Emitted[i].event = "manager_complete" /\ Emitted[i].attempt = 2

(***************************************************************************)
(* The reflection events                                                   *)
(***************************************************************************)
\* the positions of the reflection_start events among the events of the run
Reflections == {k \in 1..Len(Emitted) : Emitted[k].event = "reflection_start"}

\* the reviews that a retry follows: a blocking issue, attempts left
Retried == {i \in 1..Len(reviews) : reviews[i] > 0 /\ i < MAX_ATTEMPTS}

\* C34: there is one reflection_start event for each failed review that a
\* retry follows and none for a passed review or for the failed review of
\* the last attempt; the event comes right after the reviewer_complete event
\* of its review and before the first event of the next BUILD, and carries
\* the number of the attempt that failed; a run that returned after n
\* attempts emitted n - 1 of them.
C34_OneReflectionPerRetry ==
    /\ Cardinality(Reflections) = Cardinality(Retried)
    /\ \A k \in Reflections :
          /\ k > 1 /\ Emitted[k - 1].event = "reviewer_complete"
          /\ ~Emitted[k - 1].passed
          /\ Emitted[k].attempt = Cardinality({j \in Reflections : j <= k})
          /\ Emitted[k].attempt < MAX_ATTEMPTS
          /\ k < Len(Emitted) =>
                /\ Emitted[k + 1].event = "manager_delegating"
                /\ Emitted[k + 1].step = "builder"
                /\ Emitted[k + 1].attempt = Emitted[k].attempt + 1
    /\ \A k \in 1..Len(Emitted) :
          (Emitted[k].event = "manager_delegating" /\ Emitted[k].step = "builder"
              /\ Emitted[k].attempt > 1) => (k - 1) \in Reflections
    /\ mpc = "returned" => Cardinality(Reflections) = Count(phases, "BUILD") - 1

\* a run of three attempts that failed: two reflections, none after the
\* last review
C34_Witness ==
    /\ mpc = "returned"
    /\ ~result.success
    /\ Count(phases, "BUILD") = MAX_ATTEMPTS
    /\ Cardinality(Reflections) = MAX_ATTEMPTS - 1
    /\ Emitted[Len(Emitted)].event = "manager_complete"
    /\ Emitted[Len(Emitted) - 1].event = "reviewer_complete"

(***************************************************************************)
(* The verdict and the issue list                                          *)
(***************************************************************************)
\* C35: the review outcome that the route is taken on passes exactly when
\* the issue list of the review holds no issue of severity error, whatever
\* verdict the parser read (the passed of the reviewer_step_complete event
\* of the review step): after a reviewer_complete without error the run goes
\* to the documentation, after one with errors to a retry or to the failed
\* end.
C35_IssuesDecideNotVerdict ==
    /\ Len(reviews) > 0 =>
          /\ state.review_passed <=> error_count(state.issues) = 0
          /\ error_count(state.issues) = Last(reviews)
    /\ \A k \in 1..Len(Emitted) :
          Emitted[k].event = "reviewer_complete" =>
             /\ Emitted[k].passed <=> Emitted[k].errors = 0
             /\ k < Len(Emitted) =>
                   IF Emitted[k].errors = 0
                   THEN Emitted[k + 1].event = "manager_delegating"
                        /\ Emitted[k + 1].step = "docgen"
                   ELSE Emitted[k + 1].event \in {"reflection_start", "manager_complete"}

\* the verdict read is a failure, no blocking issue was parsed: the review
\* passes and the documentation starts
C35_Witness ==
    \E k \in 2..(Len(Emitted) - 1) :
        /\ Emitted[k - 1].event = "reviewer_step_complete"
        /\ Emitted[k - 1].step = "review"
        /\ ~Emitted[k - 1].passed
        /\ Emitted[k].event = "reviewer_complete"
        /\ Emitted[k].passed
        /\ Emitted[k].errors = 0
        /\ Emitted[k + 1].step = "docgen"
        /\ "FINALIZE" \in Range(phases)

\* the verdict read is a pass, a blocking issue was parsed: the review fails
C35_WitnessPassVerdict ==
    \E k \in 2..Len(Emitted) :
        /\ Emitted[k - 1].event = "reviewer_step_complete"
        /\ Emitted[k - 1].step = "review"
        /\ Emitted[k - 1].passed
        /\ Emitted[k].event = "reviewer_complete"
        /\ ~Emitted[k].passed
        /\ Emitted[k].errors > 0
        /\ ~state.review_passed

(***************************************************************************)
(* The end of the stream                                                   *)
(***************************************************************************)
\* the positions of the terminal events in the stream
Terminals == {k \in 1..Len(out) : out[k].event \in {"result", "error"}}

\* C36: whether run returned or raised, with any message, the sentinel is
\* put once, after the run is over and as the last item; the closed stream
\* holds every progress event and then one terminal event, result when run
\* returned and error when it raised.
C36_OneTerminalEvent ==
    /\ \A k \in 1..Len(event_queue) :
          event_queue[k] = None => RunOver /\ k = Len(event_queue)
    /\ cpc \in {"final", "closed"} => RunOver /\ event_queue = <<>>
    /\ cpc = "closed" =>
          /\ Terminals = {Len(out)}
          /\ Len(out) > 0
          /\ mpc = "returned" => out[Len(out)].event = "result"
          /\ mpc = "raised" => out[Len(out)].event = "error"

(***************************************************************************)
(* Termination of get_execution_stages                                     *)
(***************************************************************************)
\* C37: get_execution_stages ends on every plan: an iteration of its loop
\* appends a stage of at least one step that was not staged, or raises, or
\* leaves the loop; on a plan with a dependency cycle, with a dependency on
\* an id no step has, or with two steps of the same id, it ends with the
\* circular-dependency error and not with a list of stages.
C37_StagingTerminates ==
    /\ <>(spc \in {"done", "error"})
    /\ [][spc = "loop" =>
             \/ spc' = "error" /\ stages' = stages
             \/ spc' = "done" /\ stages' = stages
             \/ /\ spc' = "loop"
                /\ Len(stages') = Len(stages) + 1
                /\ staged_ids \subseteq staged_ids'
                /\ staged_ids' # staged_ids
                /\ StepIds(stages'[Len(stages')]) = staged_ids' \ staged_ids]_vars
    /\ []((spc \in {"done", "error"}
            /\ (~Acyclic(steps) \/ ~KnownDeps(steps) \/ ~DistinctIds(steps)))
           => spc = "error")

\* two steps of the same id without dependency: one stage, then the error
C37_Witness ==
    /\ spc = "error"
    /\ Len(steps) = 2
    /\ ~DistinctIds(steps)
    /\ KnownDeps(steps)
    /\ Acyclic(steps)
    /\ Len(stages) = 1
    /\ unstaged = {}

\* a step that depends on an id no step has: the error, no stage
C37_WitnessUnknown ==
    /\ spc = "error"
    /\ DistinctIds(steps)
    /\ ~KnownDeps(steps)
    /\ Acyclic(steps)

(***************************************************************************)
(* The events of CodeAgent._run                                            *)
(***************************************************************************)
\* the positions of the events of one type among the items put so far
PutOf(event_type) == {k \in 1..Len(events_put) : events_put[k].event_type = event_type}

\* C38: a run of _run puts exactly one result event, directly followed by
\* exactly one end signal, and nothing after it: before the end of the run
\* neither is in the queue, at its end the result event is the last but one
\* item and the end signal the last; the reader of progress() gets every
\* event up to the result event and then stops.
C38_OneResultThenEnd ==
    /\ rpc # "done" => PutOf("result") = {} /\ PutOf("None") = {}
    /\ rpc = "done" =>
          /\ PutOf("result") = {Len(events_put) - 1}
          /\ PutOf("None") = {Len(events_put)}
          /\ events_put[Len(events_put)] = EndSignal
    /\ gpc = "ended" =>
          /\ execution.events = <<>>
          /\ yielded = SubSeq(events_put, 1, Len(events_put) - 1)

\* the path through the except clause: the error event, the result event
\* with status failed, the end signal
C38_Witness ==
    /\ rpc = "done"
    /\ exc # NoText
    /\ Len(events_put) = 4
    /\ events_put[2].event_type = "error"
    /\ events_put[2].node = "workflow"
    /\ events_put[3].event_type = "result"
    /\ events_put[3].status = "failed"
    /\ events_put[4] = EndSignal
    /\ gpc = "ended"

\* the starts of the execute node among the items put so far
ExecuteStarts == {k \in PutOf("node_start") : events_put[k].node = "execute"}

C40_AcceptedTaskCompletes ==
    /\ task_state.status \in {TaskStatus[n] : n \in DOMAIN TaskStatus}
    /\ (rpc = "done" /\ can_handle_answer = "YES") =>
          /\ \E k \in PutOf("node_start") : events_put[k].node = "execute"
          /\ generated = "ok" =>
                \E k \in PutOf("result") : events_put[k].status = "completed"

====
